---- MODULE Spec2Model ----
(***************************************************************************)
(* A model of kdar/factorlog's format compiler and renderer.               *)
(*                                                                         *)
(* The repository carries two generations of the StdFormatter:             *)
(*   Grammar A  single-character verbs, "%T %f:%s %M"   (src/format.go)    *)
(*   Grammar B  named verbs, "%{Date} %{Message}"  (src/unnamed/part_001)  *)
(* Both are modelled; definitions of Grammar A carry the prefix A_ and     *)
(* those of Grammar B the prefix B_ where the two files use one name.      *)
(*                                                                         *)
(* A Go string or []byte is a sequence of bytes 0..255.  Offsets into it   *)
(* are Go's, counted from 0.                                               *)
(***************************************************************************)
EXTENDS Integers, Sequences, FiniteSets, TLC

(***************************************************************************)
(* Go slices and strings                                                   *)
(***************************************************************************)

\* s[a:b] of Go, for 0 <= a <= b <= len(s)
Slice(s, a, b) == SubSeq(s, a + 1, b)

\* whether s[a:b] is a legal slice expression (Go panics when it is not)
SliceOK(s, a, b) == 0 <= a /\ a <= b /\ b <= Len(s)

\* s with the byte at offset i (from 0) set to c
SetByte(s, i, c) == [s EXCEPT ![i + 1] = c]

\* make([]byte, n)
MakeBytes(n) == [i \in 1..n |-> 0]

\* byte(c) of a rune c: the low eight bits
ByteOf(c) == c % 256

\* a | b and a & b on non-negative integers
RECURSIVE BitOr(_, _)
BitOr(a, b) ==
  IF a = 0 THEN b
  ELSE IF b = 0 THEN a
  ELSE (IF a % 2 = 1 \/ b % 2 = 1 THEN 1 ELSE 0) + 2 * BitOr(a \div 2, b \div 2)

RECURSIVE BitAnd(_, _)
BitAnd(a, b) ==
  IF a = 0 \/ b = 0 THEN 0
  ELSE (IF a % 2 = 1 /\ b % 2 = 1 THEN 1 ELSE 0) + 2 * BitAnd(a \div 2, b \div 2)

\* The rune that `for _, c := range s` yields at offset i, and its width in
\* bytes.  One- and two-byte UTF-8 sequences are decoded; any other byte is
\* the replacement rune U+FFFD of width 1, as for invalid UTF-8.
RuneError == 65533

DecodeRune(s, i) ==
  LET b0 == s[i + 1] IN
  IF b0 < 128 THEN [rune |-> b0, width |-> 1]
  ELSE IF b0 >= 194 /\ b0 <= 223 /\ i + 1 < Len(s)
          /\ s[i + 2] >= 128 /\ s[i + 2] <= 191
       THEN [rune |-> (b0 - 192) * 64 + (s[i + 2] - 128), width |-> 2]
  ELSE [rune |-> RuneError, width |-> 1]

(***************************************************************************)
(* util.go: the numeric encoder                                            *)
(***************************************************************************)

\* const digits = "0123456789"
digits == <<48, 49, 50, 51, 52, 53, 54, 55, 56, 57>>

\* a % b of Go: the remainder truncated towards zero
GoMod(a, b) == IF a >= 0 THEN a % b ELSE -((-a) % b)

\* a / b of Go: the quotient truncated towards zero
GoDiv(a, b) == IF a >= 0 THEN a \div b ELSE -((-a) \div b)

\* The encoders write into a buffer and panic on an index out of range; a
\* buffer state is [b |-> bytes, ok |-> whether no index was out of range].
IndexOK(s, i) == 0 <= i /\ i < Len(s)

\* (*buf)[i] = digits[k]
PutDigit(st, i, k) ==
  IF st.ok /\ IndexOK(st.b, i) /\ IndexOK(digits, k)
  THEN [st EXCEPT !.b = SetByte(st.b, i, digits[k + 1])]
  ELSE [st EXCEPT !.ok = FALSE]

\* (*buf)[i] = c
PutByte(st, i, c) ==
  IF st.ok /\ IndexOK(st.b, i)
  THEN [st EXCEPT !.b = SetByte(st.b, i, c)]
  ELSE [st EXCEPT !.ok = FALSE]

\* twoDigits with the two digits in each other's place
twoDigitsSwapped(st, i, d) ==
  PutDigit(PutDigit(st, i, GoMod(d, 10)), i + 1, GoMod(GoDiv(d, 10), 10))

\* twoDigits(buf, i, d)
twoDigits(st, i, d) ==
  PutDigit(PutDigit(st, i + 1, GoMod(d, 10)), i, GoMod(GoDiv(d, 10), 10))

\* nDigits(buf, n, i, d): the loop for j := n - 1; j >= 0; j--
RECURSIVE nDigitsFrom(_, _, _, _)
nDigitsFrom(st, j, i, d) ==
  IF j < 0 THEN st
  ELSE nDigitsFrom(PutDigit(st, i + j, GoMod(d, 10)), j - 1, i, GoDiv(d, 10))

nDigits(st, n, i, d) == nDigitsFrom(st, n - 1, i, d)

\* const ddigits = "000102...9899": the byte at offset k
ddigits(k) == IF k % 2 = 0 THEN digits[((k \div 2) \div 10) + 1]
                           ELSE digits[((k \div 2) % 10) + 1]

\* copy(dst[i:], src[j:]) within one buffer: the bytes moved and their number
CopyWithin(b, i, j) ==
  LET n == IF Len(b) - i < Len(b) - j THEN Len(b) - i ELSE Len(b) - j IN
  [b |-> [k \in 1..Len(b) |-> IF k > i /\ k <= i + n THEN b[j + (k - i)] ELSE b[k]],
   n |-> n]

\* itoa's loop: for d >= 100 { ... }
RECURSIVE itoaLoop(_, _, _)
itoaLoop(b, j, d) ==
  IF d >= 100
  THEN LET index == (d % 100) * 2 IN
       itoaLoop(SetByte(SetByte(b, j - 1, ddigits(index + 1)), j - 2, ddigits(index)),
                j - 2, d \div 100)
  ELSE [b |-> b, j |-> j, d |-> d]

\* itoa with `if d <= 10` for `if d < 10`
itoaTenAsOne(b, i, d) ==
  LET l == itoaLoop(b, Len(b), d) IN
  IF l.d <= 10
  THEN CopyWithin(SetByte(l.b, l.j - 1, 48 + l.d), i, l.j - 1)
  ELSE LET index == l.d * 2 IN
       CopyWithin(SetByte(SetByte(l.b, l.j - 1, ddigits(index + 1)),
                          l.j - 2, ddigits(index)), i, l.j - 2)

\* itoa(buf, i, d) for d >= 0: [b |-> the buffer afterwards, n |-> its result]
itoa(b, i, d) ==
  LET l == itoaLoop(b, Len(b), d) IN
  IF l.d < 10
  THEN CopyWithin(SetByte(l.b, l.j - 1, 48 + l.d), i, l.j - 1)
  ELSE LET index == l.d * 2 IN
       CopyWithin(SetByte(SetByte(l.b, l.j - 1, ddigits(index + 1)),
                          l.j - 2, ddigits(index)), i, l.j - 2)

\* allDigits' loop: for { j--; (*buf)[j] = digits[d%10]; d /= 10; if d == 0 { break } }
RECURSIVE allDigitsLoop(_, _, _)
allDigitsLoop(b, j, d) ==
  LET b2 == SetByte(b, j - 1, digits[(d % 10) + 1]) IN
  IF d \div 10 = 0 THEN [b |-> b2, j |-> j - 1]
  ELSE allDigitsLoop(b2, j - 1, d \div 10)

\* allDigits(buf, i, d) for d >= 0, the reference conversion of the tests
allDigits(b, i, d) ==
  LET l == allDigitsLoop(b, Len(b), d) IN CopyWithin(l.b, i, l.j)

(***************************************************************************)
(* Grammar A (src/format.go): verbs, compiler                              *)
(***************************************************************************)

\* const ( vSTRING fmtVerb = 1 << iota; ... )
A_vSTRING           == 1
A_vDATE_D           == 2
A_vDATE_d           == 4
A_vTIME_T           == 8
A_vTIME_t           == 16
A_vSEVERITY         == 32
A_vSHORT_SEVERITY   == 64
A_vFILE             == 128
A_vSHORT_FILE       == 256
A_vEXTRA_SHORT_FILE == 512
A_vLINE             == 1024
A_vMESSAGE          == 2048
A_vPACKAGE_FUNCTION == 4096
A_vFUNCTION         == 8192

\* A_vRUNTIME_CALLER without vLINE
A_vRUNTIME_CALLER_NoLine ==
  BitOr(A_vPACKAGE_FUNCTION, BitOr(A_vFUNCTION, BitOr(A_vFILE,
    BitOr(A_vSHORT_FILE, A_vEXTRA_SHORT_FILE))))

\* If formatter.flags is set to any of these, we need runtime.Caller
A_vRUNTIME_CALLER ==
  BitOr(A_vPACKAGE_FUNCTION, BitOr(A_vFUNCTION, BitOr(A_vFILE,
    BitOr(A_vSHORT_FILE, BitOr(A_vEXTRA_SHORT_FILE, A_vLINE)))))

\* the switch c { case 'T': ... } of NewStdFormatter: the verb of a letter,
\* 0 for a rune that is no verb letter
A_VerbOf(c) ==
  CASE c = 84  -> A_vTIME_T            \* 'T'
    [] c = 116 -> A_vTIME_t            \* 't'
    [] c = 68  -> A_vDATE_D            \* 'D'
    [] c = 100 -> A_vDATE_d            \* 'd'
    [] c = 76  -> A_vSEVERITY          \* 'L'
    [] c = 108 -> A_vSHORT_SEVERITY    \* 'l'
    [] c = 70  -> A_vFILE              \* 'F'
    [] c = 102 -> A_vSHORT_FILE        \* 'f'
    [] c = 120 -> A_vEXTRA_SHORT_FILE  \* 'x'
    [] c = 115 -> A_vLINE              \* 's'
    [] c = 77  -> A_vMESSAGE           \* 'M'
    [] c = 80  -> A_vPACKAGE_FUNCTION  \* 'P'
    [] c = 112 -> A_vFUNCTION          \* 'p'
    [] OTHER   -> 0

\* The body of `for _, c := range frmt` on the compiler's state
\* [strings, parts, flags, isverb, raw], by its three branches.

\* if !isverb && c == '%' { flush raw; isverb = true; continue }
A_SentinelStep(st) ==
  IF Len(st.raw) > 0
  THEN [st EXCEPT !.strings = Append(@, st.raw),
                  !.parts = Append(@, A_vSTRING),
                  !.raw = <<>>,
                  !.isverb = TRUE]
  ELSE [st EXCEPT !.isverb = TRUE]

\* A_VerbStep without `case '%'`: the doubled sentinel falls to the default
A_VerbStepNoEscape(st, c) ==
  IF A_VerbOf(c) # 0
  THEN [st EXCEPT !.flags = BitOr(@, A_VerbOf(c)),
                  !.parts = Append(@, A_VerbOf(c)),
                  !.isverb = FALSE]
  ELSE [st EXCEPT !.raw = Append(Append(@, 37), ByteOf(c)),
                  !.isverb = FALSE]

\* if isverb { switch c { ... } }; isverb = false
A_VerbStep(st, c) ==
  IF A_VerbOf(c) # 0
  THEN [st EXCEPT !.flags = BitOr(@, A_VerbOf(c)),
                  !.parts = Append(@, A_VerbOf(c)),
                  !.isverb = FALSE]
  ELSE IF c = 37                                           \* case '%'
  THEN [st EXCEPT !.raw = Append(@, 37), !.isverb = FALSE]
  ELSE [st EXCEPT !.raw = Append(Append(@, 37), ByteOf(c)),     \* default
                  !.isverb = FALSE]

\* } else { raw = append(raw, byte(c)) }; isverb = false
A_LiteralStep(st, c) ==
  [st EXCEPT !.raw = Append(@, ByteOf(c)), !.isverb = FALSE]

\* the loop over the runes of frmt, from byte offset i
RECURSIVE A_CompileLoop(_, _, _)
A_CompileLoop(frmt, i, st) ==
  IF i >= Len(frmt) THEN st
  ELSE LET r == DecodeRune(frmt, i) IN
       IF ~st.isverb /\ r.rune = 37                        \* '%'
       THEN A_CompileLoop(frmt, i + r.width, A_SentinelStep(st))
       ELSE IF st.isverb
       THEN A_CompileLoop(frmt, i + r.width, A_VerbStep(st, r.rune))
       ELSE A_CompileLoop(frmt, i + r.width, A_LiteralStep(st, r.rune))

\* NewStdFormatter(frmt) of Grammar A.  ok: it returned (it has no statement
\* that can panic).
A_NewStdFormatter(frmt) ==
  LET st == A_CompileLoop(frmt, 0,
              [strings |-> <<>>, parts |-> <<>>, flags |-> 0,
               isverb |-> FALSE, raw |-> <<>>])
      fl == IF Len(st.raw) > 0
            THEN [st EXCEPT !.strings = Append(@, st.raw),
                            !.parts = Append(@, A_vSTRING)]
            ELSE st
  IN [frmt |-> frmt, strings |-> fl.strings, parts |-> fl.parts,
      flags |-> fl.flags, tmp |-> MakeBytes(64), stmpCap |-> 0, ok |-> TRUE]

\* StdFormatter.ShouldRuntimeCaller of Grammar A
A_ShouldRuntimeCaller(fmtr) == BitAnd(fmtr.flags, A_vRUNTIME_CALLER) # 0

(***************************************************************************)
(* Severity (src/factorlog.go)                                             *)
(***************************************************************************)

\* const ( NONE Severity = iota; TRACE; ... PANIC )
NONE     == 0
TRACE    == 1
DEBUG    == 2
INFO     == 3
WARN     == 4
ERROR    == 5
CRITICAL == 6
STACK    == 7
FATAL    == 8
PANIC    == 9

\* var SeverityStrings = [...]string{"", "TRAC", "DEBG", ...}
SeverityStrings ==
  << <<>>,                                   \* ""
     <<84, 82, 65, 67>>,                     \* "TRAC"
     <<68, 69, 66, 71>>,                     \* "DEBG"
     <<73, 78, 70, 79>>,                     \* "INFO"
     <<87, 65, 82, 78>>,                     \* "WARN"
     <<69, 82, 79, 82>>,                     \* "EROR"
     <<67, 82, 73, 84>>,                     \* "CRIT"
     <<83, 84, 65, 75>>,                     \* "STAK"
     <<70, 65, 84, 76>>,                     \* "FATL"
     <<80, 65, 78, 67>> >>                   \* "PANC"

\* var LongSeverityStrings = [...]string{"NONE", "TRACE", ...}
LongSeverityStrings ==
  << <<78, 79, 78, 69>>,                     \* "NONE"
     <<84, 82, 65, 67, 69>>,                 \* "TRACE"
     <<68, 69, 66, 85, 71>>,                 \* "DEBUG"
     <<73, 78, 70, 79>>,                     \* "INFO"
     <<87, 65, 82, 78>>,                     \* "WARN"
     <<69, 82, 82, 79, 82>>,                 \* "ERROR"
     <<67, 82, 73, 84, 73, 67, 65, 76>>,     \* "CRITICAL"
     <<83, 84, 65, 67, 75>>,                 \* "STACK"
     <<70, 65, 84, 65, 76>>,                 \* "FATAL"
     <<80, 65, 78, 73, 67>> >>               \* "PANIC"

(***************************************************************************)
(* The renderer.  A render state is                                        *)
(*   [buf |-> the output so far, tmp |-> f.tmp, stmpCap |-> cap(f.stmp),   *)
(*    stringi |-> the index of the next literal, ok |-> no panic so far].  *)
(***************************************************************************)

filepathSeparator == 47                      \* filepath.Separator, '/'

\* for ; slash >= 0; slash-- { if s[slash] == filepath.Separator { break } }
RECURSIVE LastSeparator(_, _)
LastSeparator(s, slash) ==
  IF slash < 0 THEN slash
  ELSE IF s[slash + 1] = filepathSeparator THEN slash
  ELSE LastSeparator(s, slash - 1)

\* buf = append(buf, bytes...)
Emit(rs, bytes) == [rs EXCEPT !.buf = @ \o bytes]

\* a panic: the call does not return
Panicked(rs) == [rs EXCEPT !.ok = FALSE]

\* the scratch buffer of a render state as an encoder state, and back
TmpOf(rs) == [b |-> rs.tmp, ok |-> TRUE]

\* EmitTmp with the append ahead of the writes: what goes out is what the
\* scratch buffer held before them
EmitTmpBeforeWrites(rs, e, n) ==
  IF e.ok THEN [rs EXCEPT !.tmp = e.b, !.buf = @ \o Slice(rs.tmp, 0, n)]
  ELSE [rs EXCEPT !.tmp = e.b, !.ok = FALSE]

\* buf = append(buf, f.tmp[:n]...) after the writes that left the encoder
\* state e
EmitTmp(rs, e, n) ==
  IF e.ok THEN [rs EXCEPT !.tmp = e.b, !.buf = @ \o Slice(e.b, 0, n)]
  ELSE [rs EXCEPT !.tmp = e.b, !.ok = FALSE]

\* hour, min, sec := Time.Clock(); twoDigits(0, hour); tmp[2] = ':'; ...
ClockInto(e, t) ==
  twoDigits(PutByte(twoDigits(PutByte(twoDigits(e, 0, t.Hour), 2, 58),
                              3, t.Min), 5, 58), 6, t.Sec)

\* the date written day first
DateIntoDayFirst(e, t, sep) ==
  twoDigits(PutByte(twoDigits(PutByte(nDigits(e, 4, 0, t.Year), 4, sep),
                              5, t.Day), 7, sep), 8, t.Month)

\* year, month, day := Time.Date(); nDigits(4, 0, year); tmp[4] = sep; ...
DateInto(e, t, sep) ==
  twoDigits(PutByte(twoDigits(PutByte(nDigits(e, 4, 0, t.Year), 4, sep),
                              5, t.Month), 7, sep), 8, t.Day)

\* the body of case vSHORT_FILE, vEXTRA_SHORT_FILE of Grammar A
A_ShortFile(rs, data, p) ==
  IF Len(data.File) = 0 THEN Emit(rs, <<63, 63, 63>>)     \* "???"
  ELSE LET slash == LastSeparator(data.File, Len(data.File) - 1)
           file == IF slash >= 0
                   THEN Slice(data.File, slash + 1, Len(data.File))
                   ELSE data.File
       IN IF p = A_vEXTRA_SHORT_FILE
          THEN IF SliceOK(file, 0, Len(file) - 3)
               THEN Emit(rs, Slice(file, 0, Len(file) - 3))
               ELSE Panicked(rs)
          ELSE Emit(rs, file)

\* one iteration of `for _, p := range f.parts` of Grammar A's Format
A_RenderPart(fmtr, data, rs, p) ==
  CASE p = A_vSTRING ->
         IF IndexOK(fmtr.strings, rs.stringi)
         THEN [Emit(rs, fmtr.strings[rs.stringi + 1]) EXCEPT !.stringi = @ + 1]
         ELSE Panicked(rs)
    [] p = A_vTIME_T ->
         EmitTmp(rs, nDigits(PutByte(ClockInto(TmpOf(rs), data.Time), 8, 46),
                             6, 9, data.Time.Nsec), 15)
    [] p = A_vTIME_t -> EmitTmp(rs, ClockInto(TmpOf(rs), data.Time), 8)
    [] p = A_vDATE_D -> EmitTmp(rs, DateInto(TmpOf(rs), data.Time, 45), 10)
    [] p = A_vDATE_d -> EmitTmp(rs, DateInto(TmpOf(rs), data.Time, 47), 10)
    [] p = A_vSEVERITY ->
         IF IndexOK(LongSeverityStrings, data.Severity)
         THEN Emit(rs, LongSeverityStrings[data.Severity + 1])
         ELSE Panicked(rs)
    [] p = A_vSHORT_SEVERITY ->
         IF IndexOK(SeverityStrings, data.Severity)
         THEN Emit(rs, SeverityStrings[data.Severity + 1])
         ELSE Panicked(rs)
    [] p = A_vFILE -> Emit(rs, data.File)
    [] p \in {A_vSHORT_FILE, A_vEXTRA_SHORT_FILE} -> A_ShortFile(rs, data, p)
    [] p = A_vLINE ->
         LET r == itoa(rs.tmp, 0, data.Line) IN
         [rs EXCEPT !.tmp = r.b, !.buf = @ \o Slice(r.b, 0, r.n)]
    [] p = A_vMESSAGE -> Emit(rs, data.Message)
    [] p = A_vPACKAGE_FUNCTION -> Emit(rs, data.Function)
    [] p = A_vFUNCTION -> Emit(rs, data.Package)
    [] OTHER -> rs

\* the loop over f.parts from index k (from 1); a panic ends it
RECURSIVE A_RenderLoop(_, _, _, _)
A_RenderLoop(fmtr, data, rs, k) ==
  IF k > Len(fmtr.parts) \/ ~rs.ok THEN rs
  ELSE A_RenderLoop(fmtr, data, A_RenderPart(fmtr, data, rs, fmtr.parts[k]), k + 1)

\* the segments of Grammar A rendered and concatenated, before the line
\* terminator is looked at
A_RenderBody(fmtr, data) ==
  A_RenderLoop(fmtr, data,
    [buf |-> <<>>, tmp |-> fmtr.tmp, stmpCap |-> fmtr.stmpCap, stringi |-> 0,
     ok |-> TRUE], 1)

\* A_Terminate without the look at the last byte
A_TerminateAlways(buf) ==
  IF Len(buf) > 0 THEN Append(buf, 10) ELSE buf

\* if len(buf) > 0 && buf[len(buf)-1] != '\n' { buf = append(buf, '\n') }
A_Terminate(buf) ==
  IF Len(buf) > 0 /\ buf[Len(buf)] # 10 THEN Append(buf, 10) ELSE buf

\* StdFormatter.Format(data) of Grammar A: body is buf when the loop ended,
\* buf the bytes returned (none after a panic, ok = FALSE)
A_Format(fmtr, data) ==
  LET rs == A_RenderBody(fmtr, data) IN
  [body |-> rs.buf, buf |-> IF rs.ok THEN A_Terminate(rs.buf) ELSE <<>>,
   tmp |-> rs.tmp, stmpCap |-> rs.stmpCap, ok |-> rs.ok]

(***************************************************************************)
(* Grammar B (src/unnamed/part_001): verbs, the verb pattern, compiler     *)
(***************************************************************************)

\* const ( vSTRING fmtVerb = 1 << iota; ... ): the values of 1 << 0 to 1 << 22
B_vSTRING       == 1
B_vSEVERITY     == 2
B_vSeverity     == 4
B_vseverity     == 8
B_vSEV          == 16
B_vSev          == 32
B_vsev          == 64
B_vS            == 128
B_vs            == 256
B_vDate         == 512
B_vTime         == 1024
B_vUnix         == 2048
B_vUnixNano     == 4096
B_vFullFile     == 8192
B_vFile         == 16384
B_vShortFile    == 32768
B_vLine         == 65536
B_vFullFunction == 131072
B_vPkgFunction  == 262144
B_vFunction     == 524288
B_vColor        == 1048576
B_vMessage      == 2097152
B_vSafeMessage  == 4194304

\* If formatter.flags is set to any of these, we need runtime.Caller
B_vRUNTIME_CALLER ==
  BitOr(B_vFullFile, BitOr(B_vFile, BitOr(B_vShortFile, BitOr(B_vLine,
    BitOr(B_vFullFunction, BitOr(B_vPkgFunction, B_vFunction))))))

\* verbMap[verb]; 0 when verb is no key of the map
verbMap(verb) ==
  CASE verb = <<83, 69, 86, 69, 82, 73, 84, 89>> -> B_vSEVERITY    \* "SEVERITY"
    [] verb = <<83, 101, 118, 101, 114, 105, 116, 121>> -> B_vSeverity
    [] verb = <<115, 101, 118, 101, 114, 105, 116, 121>> -> B_vseverity
    [] verb = <<83, 69, 86>> -> B_vSEV                             \* "SEV"
    [] verb = <<83, 101, 118>> -> B_vSev                           \* "Sev"
    [] verb = <<115, 101, 118>> -> B_vsev                          \* "sev"
    [] verb = <<83>> -> B_vS                                       \* "S"
    [] verb = <<115>> -> B_vs                                      \* "s"
    [] verb = <<68, 97, 116, 101>> -> B_vDate                      \* "Date"
    [] verb = <<84, 105, 109, 101>> -> B_vTime                     \* "Time"
    [] verb = <<85, 110, 105, 120>> -> B_vUnix                     \* "Unix"
    [] verb = <<85, 110, 105, 120, 78, 97, 110, 111>> -> B_vUnixNano
    [] verb = <<70, 117, 108, 108, 70, 105, 108, 101>> -> B_vFullFile
    [] verb = <<70, 105, 108, 101>> -> B_vFile                     \* "File"
    [] verb = <<83, 104, 111, 114, 116, 70, 105, 108, 101>> -> B_vShortFile
    [] verb = <<76, 105, 110, 101>> -> B_vLine                     \* "Line"
    [] verb = <<70, 117, 108, 108, 70, 117, 110, 99, 116, 105, 111, 110>>
         -> B_vFullFunction
    [] verb = <<80, 107, 103, 70, 117, 110, 99, 116, 105, 111, 110>>
         -> B_vPkgFunction
    [] verb = <<70, 117, 110, 99, 116, 105, 111, 110>> -> B_vFunction
    [] verb = <<67, 111, 108, 111, 114>> -> B_vColor               \* "Color"
    [] verb = <<77, 101, 115, 115, 97, 103, 101>> -> B_vMessage    \* "Message"
    [] verb = <<83, 97, 102, 101, 77, 101, 115, 115, 97, 103, 101>>
         -> B_vSafeMessage
    [] OTHER -> 0

\* formatRe = regexp.MustCompile(`%{([A-Za-z]+)(?:\s(.*?[^\\]))?}`), matched
\* as Go's regexp does (leftmost match, greedy name, lazy argument).

\* [A-Za-z]
IsLetter(c) == (c >= 65 /\ c <= 90) \/ (c >= 97 /\ c <= 122)

\* \s of Go's regexp: [\t\n\f\r ]
IsSpace(c) == c \in {9, 10, 12, 13, 32}

\* the offset after the letters that start at offset i
RECURSIVE NameEnd(_, _)
NameEnd(s, i) ==
  IF i < Len(s) /\ IsLetter(s[i + 1]) THEN NameEnd(s, i + 1) ELSE i

\* (.*?[^\\])} from offset a: the offset p of the first '}' that follows at
\* least one byte of the argument, the last of them no backslash and none of
\* the others a newline; -1 when there is none.  p is the candidate looked at.
RECURSIVE ArgClose(_, _)
ArgClose(s, p) ==
  IF p >= Len(s) THEN -1
  ELSE IF s[p + 1] = 125 /\ s[p] # 92 THEN p
  ELSE IF s[p] = 10 THEN -1
  ELSE ArgClose(s, p + 1)

\* the match of formatRe that starts at offset i, as the index vector m of
\* FindAllStringSubmatchIndex (m[4] = m[5] = -1 without an argument), or <<>>
MatchAt(s, i) ==
  IF i + 2 < Len(s) /\ s[i + 1] = 37 /\ s[i + 2] = 123 /\ IsLetter(s[i + 3])
  THEN LET e == NameEnd(s, i + 2) IN
       IF e >= Len(s) THEN <<>>
       ELSE IF s[e + 1] = 125 THEN <<i, e + 1, i + 2, e, -1, -1>>
       ELSE IF IsSpace(s[e + 1])
       THEN LET p == ArgClose(s, e + 2) IN
            IF p >= 0 THEN <<i, p + 1, i + 2, e, e + 1, p>> ELSE <<>>
       ELSE <<>>
  ELSE <<>>

\* formatRe.FindAllStringSubmatchIndex(s, -1): the successive matches, each
\* searched from the end of the one before; i is the offset searched from
RECURSIVE FindAllFrom(_, _)
FindAllFrom(s, i) ==
  IF i >= Len(s) THEN <<>>
  ELSE LET m == MatchAt(s, i) IN
       IF m = <<>> THEN FindAllFrom(s, i + 1)
       ELSE <<m>> \o FindAllFrom(s, m[2])

FindAllStringSubmatchIndex(s) == FindAllFrom(s, 0)

\* github.com/mgutz/ansi, which the repository imports: ansi.Reset is
\* "\033[0m"; ansi.ColorCode(style) is "" for the empty style and else an
\* escape sequence chosen by the style, stood for here by ESC [ 3 d m with
\* a digit d taken from the style.
ansiReset == <<27, 91, 48, 109>>

ansiColorCode(style) ==
  IF style = <<>> THEN <<>> ELSE <<27, 91, 51, 48 + (Len(style) % 10), 109>>

\* appendString without f.parts = append(f.parts, vSTRING)
appendStringNoPart(st, s) ==
  IF Len(s) > 0
  THEN [st EXCEPT !.strings = Append(@, s)]
  ELSE st

\* f.appendString(s) on the compiler's state [strings, parts, flags, ok]
appendString(st, s) ==
  IF Len(s) > 0
  THEN [st EXCEPT !.strings = Append(@, s), !.parts = Append(@, B_vSTRING)]
  ELSE st

\* B_CompileMatch without `if m[4] != -1`: the layout is sliced always
B_CompileMatchNoGroupCheck(frmt, st, m) ==
  IF ~SliceOK(frmt, m[3], m[4]) \/ ~SliceOK(frmt, m[5], m[6])
  THEN [st EXCEPT !.ok = FALSE]
  ELSE [st EXCEPT !.prev = m[2]]

\* B_CompileMatch without `if v == vColor`: Color is a verb like the others
B_CompileMatchColorVerb(frmt, st, m) ==
  LET s1 == IF m[1] > st.prev
            THEN appendString(st, Slice(frmt, st.prev, m[1]))
            ELSE st
      v  == verbMap(Slice(frmt, m[3], m[4]))
  IN [(IF v # 0
       THEN [s1 EXCEPT !.flags = BitOr(@, v), !.parts = Append(@, v)]
       ELSE s1) EXCEPT !.prev = m[2]]

\* The body of `for _, m := range matches` on the state
\* [strings, parts, flags, prev, ok]; a slice out of range is a panic.
B_CompileMatch(frmt, st, m) ==
  IF ~SliceOK(frmt, m[3], m[4])
     \/ (m[5] # -1 /\ ~SliceOK(frmt, m[5], m[6]))
     \/ (m[1] > st.prev /\ ~SliceOK(frmt, st.prev, m[1]))
  THEN [st EXCEPT !.ok = FALSE]
  ELSE
    LET verb   == Slice(frmt, m[3], m[4])
        layout == IF m[5] # -1 THEN Slice(frmt, m[5], m[6]) ELSE <<>>
        s1     == IF m[1] > st.prev
                  THEN appendString(st, Slice(frmt, st.prev, m[1]))
                  ELSE st
        v      == verbMap(verb)
        s2     == IF v # 0
                  THEN IF v = B_vColor
                       THEN IF layout = <<114, 101, 115, 101, 116>>  \* "reset"
                            THEN appendString(s1, ansiReset)
                            ELSE appendString(s1, ansiColorCode(layout))
                       ELSE [s1 EXCEPT !.flags = BitOr(@, v),
                                       !.parts = Append(@, v)]
                  ELSE s1
    IN [s2 EXCEPT !.prev = m[2]]

\* the loop over the matches from index k (from 1); a panic ends it
RECURSIVE B_CompileLoop(_, _, _, _)
B_CompileLoop(frmt, matches, st, k) ==
  IF k > Len(matches) \/ ~st.ok THEN st
  ELSE B_CompileLoop(frmt, matches, B_CompileMatch(frmt, st, matches[k]), k + 1)

\* NewStdFormatter(frmt) of Grammar B.  ok: it returned without a panic.
B_NewStdFormatter(frmt) ==
  LET st == B_CompileLoop(frmt, FindAllStringSubmatchIndex(frmt),
              [strings |-> <<>>, parts |-> <<>>, flags |-> 0, prev |-> 0,
               ok |-> TRUE], 1)
      fl == IF ~st.ok THEN st
            ELSE IF ~SliceOK(frmt, st.prev, Len(frmt)) THEN [st EXCEPT !.ok = FALSE]
            ELSE IF Slice(frmt, st.prev, Len(frmt)) # <<>>
            THEN appendString(st, Slice(frmt, st.prev, Len(frmt)))
            ELSE st
  IN [frmt |-> frmt, strings |-> fl.strings, parts |-> fl.parts,
      flags |-> fl.flags, tmp |-> MakeBytes(64), stmpCap |-> 64, ok |-> fl.ok]

\* StdFormatter.ShouldRuntimeCaller of Grammar B
B_ShouldRuntimeCaller(fmtr) == BitAnd(fmtr.flags, B_vRUNTIME_CALLER) # 0

(***************************************************************************)
(* Grammar B: the renderer                                                 *)
(***************************************************************************)

\* The eight severity tables of Grammar B, UcSeverityStrings ...
\* LcShortestSeverityStrings, indexed by the severity.  The entries TRACE to
\* PANIC are those the comment above NewStdFormatter lists.
Lower(s) == [k \in 1..Len(s) |-> IF s[k] >= 65 /\ s[k] <= 90 THEN s[k] + 32 ELSE s[k]]

Capitalized(s) == [k \in 1..Len(s) |-> IF k > 1 /\ s[k] >= 65 /\ s[k] <= 90
                                          THEN s[k] + 32 ELSE s[k]]

UcSeverityStrings  == LongSeverityStrings
CapSeverityStrings == [k \in 1..Len(UcSeverityStrings) |-> Capitalized(UcSeverityStrings[k])]
LcSeverityStrings  == [k \in 1..Len(UcSeverityStrings) |-> Lower(UcSeverityStrings[k])]
UcShortSeverityStrings ==
  [k \in 1..Len(SeverityStrings) |->
     IF k = 1 THEN <<78, 79, 78, 69>> ELSE SeverityStrings[k]]      \* "NONE"
CapShortSeverityStrings ==
  [k \in 1..Len(UcShortSeverityStrings) |-> Capitalized(UcShortSeverityStrings[k])]
LcShortSeverityStrings ==
  [k \in 1..Len(UcShortSeverityStrings) |-> Lower(UcShortSeverityStrings[k])]
UcShortestSeverityStrings ==
  [k \in 1..Len(UcSeverityStrings) |-> <<UcSeverityStrings[k][1]>>]
LcShortestSeverityStrings ==
  [k \in 1..Len(UcShortestSeverityStrings) |-> Lower(UcShortestSeverityStrings[k])]

\* buf.WriteString(table[context.Severity])
EmitSeverity(rs, table, sev) ==
  IF IndexOK(table, sev) THEN Emit(rs, table[sev + 1]) ELSE Panicked(rs)

\* i64toa(buf, i, d): itoa for an int64.  d is given by its base-100 digits,
\* the least significant first (<<>> is 0), so that d % 100 is Head and
\* d / 100 is Tail: UnixNano does not fit the 32-bit integers of TLC.
RECURSIVE i64toaLoop(_, _, _)
i64toaLoop(b, j, d) ==
  IF Len(d) >= 2
  THEN LET index == d[1] * 2 IN
       i64toaLoop(SetByte(SetByte(b, j - 1, ddigits(index + 1)), j - 2, ddigits(index)),
                  j - 2, Tail(d))
  ELSE [b |-> b, j |-> j, d |-> IF d = <<>> THEN 0 ELSE d[1]]

i64toa(b, i, d) ==
  LET l == i64toaLoop(b, Len(b), d) IN
  IF l.d < 10
  THEN CopyWithin(SetByte(l.b, l.j - 1, 48 + l.d), i, l.j - 1)
  ELSE LET index == l.d * 2 IN
       CopyWithin(SetByte(SetByte(l.b, l.j - 1, ddigits(index + 1)),
                          l.j - 2, ddigits(index)), i, l.j - 2)

\* the body of case vFile, vShortFile of Grammar B
B_ShortFile(rs, data, p) ==
  LET slash == LastSeparator(data.File, Len(data.File) - 1)
      file == IF Len(data.File) = 0 THEN <<63, 63, 63>>     \* "???"
              ELSE IF slash >= 0
              THEN Slice(data.File, slash + 1, Len(data.File))
              ELSE data.File
  IN IF p = B_vShortFile
     THEN IF SliceOK(file, 0, Len(file) - 3)
          THEN Emit(rs, Slice(file, 0, Len(file) - 3))
          ELSE Panicked(rs)
     ELSE Emit(rs, file)

\* the body of case vPkgFunction
B_PkgFunction(rs, data) ==
  LET fun == data.Function
      slash == LastSeparator(fun, Len(fun) - 1)
  IN Emit(rs, IF slash >= 0 THEN Slice(fun, slash + 1, Len(fun)) ELSE fun)

\* the loop of case vFunction: lastDot after it
RECURSIVE FunctionLastDot(_, _, _)
FunctionLastDot(fun, slash, lastDot) ==
  IF slash < 0 THEN lastDot
  ELSE IF fun[slash + 1] = filepathSeparator THEN lastDot
  ELSE FunctionLastDot(fun, slash - 1,
                       IF fun[slash + 1] = 46 THEN slash ELSE lastDot)

\* the body of case vFunction
B_Function(rs, data) ==
  LET fun == data.Function
      lastDot == FunctionLastDot(fun, Len(fun) - 1, -1)
  IN Emit(rs, Slice(fun, lastDot + 1, Len(fun)))

\* the branches on the length of the message without the second one
SafeCapNoCut(ca, l) == IF l > ca THEN l ELSE ca

\* cap(f.stmp) after f.stmp = f.stmp[:0] and the two branches on the length l
\* of the message
SafeCap(ca, l) == IF l > ca THEN l ELSE IF ca > 8000 THEN l ELSE ca

\* cap of a slice of capacity ca after append has made its length n: a
\* slice that is full is reallocated to twice its capacity, or to n when
\* that is more
GrowCap(ca, n) == IF n <= ca THEN ca ELSE IF n > 2 * ca THEN n ELSE 2 * ca

\* one iteration of `for _, c := range context.Message` of case
\* vSafeMessage, on [stmp, tmp (an encoder state), cap, i (the offset of the
\* next rune)]
SafeRune(msg, st) ==
  LET r == DecodeRune(msg, st.i) IN
  IF r.rune < 32
  THEN LET e == twoDigits(PutByte(PutByte(st.tmp, 0, 92), 1, 120), 2, r.rune)
           s2 == st.stmp \o Slice(e.b, 0, 4)
       IN [stmp |-> s2, tmp |-> e, cap |-> GrowCap(st.cap, Len(s2)),
           i |-> st.i + r.width]
  ELSE LET s2 == Append(st.stmp, ByteOf(r.rune)) IN
       [stmp |-> s2, tmp |-> st.tmp, cap |-> GrowCap(st.cap, Len(s2)),
        i |-> st.i + r.width]

\* the iterations of that loop for the runes that begin at the offsets lo to
\* hi - 1, in their order; the range is walked by halves, so that a message
\* of thousands of bytes is gone through without nesting as deep as it is long
RECURSIVE SafeRange(_, _, _, _)
SafeRange(msg, lo, hi, st) ==
  IF st.i >= hi \/ ~st.tmp.ok THEN st
  ELSE IF hi - lo <= 1 THEN SafeRune(msg, st)
  ELSE LET mid == (lo + hi) \div 2
           left == SafeRange(msg, lo, mid, st)
       IN IF left.i >= hi \/ ~left.tmp.ok THEN left
          ELSE SafeRange(msg, mid, hi, left)

\* `for _, c := range context.Message` of case vSafeMessage from byte offset
\* i, on [stmp, tmp (an encoder state), cap]
SafeLoop(msg, i, st) ==
  SafeRange(msg, i, Len(msg),
            [stmp |-> st.stmp, tmp |-> st.tmp, cap |-> st.cap, i |-> i])

\* the body of case vSafeMessage
B_SafeMessage(rs, data) ==
  LET st == SafeLoop(data.Message, 0,
              [stmp |-> <<>>, tmp |-> TmpOf(rs),
               cap |-> SafeCap(rs.stmpCap, Len(data.Message))])
  IN [rs EXCEPT !.tmp = st.tmp.b, !.stmpCap = st.cap,
                !.buf = IF st.tmp.ok THEN @ \o st.stmp ELSE @,
                !.ok = st.tmp.ok]

\* one iteration of `for _, p := range f.parts` of Grammar B's Format
B_RenderPart(fmtr, data, rs, p) ==
  CASE p = B_vSTRING ->
         IF IndexOK(fmtr.strings, rs.stringi)
         THEN [Emit(rs, fmtr.strings[rs.stringi + 1]) EXCEPT !.stringi = @ + 1]
         ELSE Panicked(rs)
    [] p = B_vSEVERITY -> EmitSeverity(rs, UcSeverityStrings, data.Severity)
    [] p = B_vSeverity -> EmitSeverity(rs, CapSeverityStrings, data.Severity)
    [] p = B_vseverity -> EmitSeverity(rs, LcSeverityStrings, data.Severity)
    [] p = B_vSEV -> EmitSeverity(rs, UcShortSeverityStrings, data.Severity)
    [] p = B_vSev -> EmitSeverity(rs, CapShortSeverityStrings, data.Severity)
    [] p = B_vsev -> EmitSeverity(rs, LcShortSeverityStrings, data.Severity)
    [] p = B_vS -> EmitSeverity(rs, UcShortestSeverityStrings, data.Severity)
    [] p = B_vs -> EmitSeverity(rs, LcShortestSeverityStrings, data.Severity)
    [] p = B_vDate -> EmitTmp(rs, DateInto(TmpOf(rs), data.Time, 45), 10)
    [] p = B_vTime -> EmitTmp(rs, ClockInto(TmpOf(rs), data.Time), 8)
    [] p = B_vUnix ->
         LET r == i64toa(rs.tmp, 0, data.Time.Unix) IN
         [rs EXCEPT !.tmp = r.b, !.buf = @ \o Slice(r.b, 0, r.n)]
    [] p = B_vUnixNano ->
         LET r == i64toa(rs.tmp, 0, data.Time.UnixNano) IN
         [rs EXCEPT !.tmp = r.b, !.buf = @ \o Slice(r.b, 0, r.n)]
    [] p = B_vFullFile -> Emit(rs, data.File)
    [] p \in {B_vFile, B_vShortFile} -> B_ShortFile(rs, data, p)
    [] p = B_vLine ->
         LET r == itoa(rs.tmp, 0, data.Line) IN
         [rs EXCEPT !.tmp = r.b, !.buf = @ \o Slice(r.b, 0, r.n)]
    [] p = B_vFullFunction -> Emit(rs, data.Function)
    [] p = B_vPkgFunction -> B_PkgFunction(rs, data)
    [] p = B_vFunction -> B_Function(rs, data)
    [] p = B_vMessage -> Emit(rs, data.Message)
    [] p = B_vSafeMessage -> B_SafeMessage(rs, data)
    [] OTHER -> rs

\* the loop over f.parts from index k (from 1); a panic ends it
RECURSIVE B_RenderLoop(_, _, _, _)
B_RenderLoop(fmtr, data, rs, k) ==
  IF k > Len(fmtr.parts) \/ ~rs.ok THEN rs
  ELSE B_RenderLoop(fmtr, data, B_RenderPart(fmtr, data, rs, fmtr.parts[k]), k + 1)

\* the segments of Grammar B rendered and concatenated, before the line
\* terminator is looked at
B_RenderBody(fmtr, data) ==
  B_RenderLoop(fmtr, data,
    [buf |-> <<>>, tmp |-> fmtr.tmp, stmpCap |-> fmtr.stmpCap, stringi |-> 0,
     ok |-> TRUE], 1)

\* b := buf.Bytes(); if buf.Len() > 0 && b[len(b)-1] != '\n' { b = append(b, '\n') }
B_Terminate(b) ==
  IF Len(b) > 0 /\ b[Len(b)] # 10 THEN Append(b, 10) ELSE b

\* StdFormatter.Format(context) of Grammar B: body is the buffer when the
\* loop ended, buf the bytes returned (none after a panic, ok = FALSE)
B_Format(fmtr, data) ==
  LET rs == B_RenderBody(fmtr, data) IN
  [body |-> rs.buf, buf |-> IF rs.ok THEN B_Terminate(rs.buf) ELSE <<>>,
   tmp |-> rs.tmp, stmpCap |-> rs.stmpCap, ok |-> rs.ok]

(***************************************************************************)
(* Log records (LogRecord of Grammar A, LogContext of Grammar B).  Time is *)
(* given by what Date(), Clock(), Nanosecond(), Unix() and UnixNano()      *)
(* return for it.                                                          *)
(***************************************************************************)

\* fmtTestsData of src/format_test.go
fmtTestsData ==
  [Time |-> [Year |-> 2014, Month |-> 1, Day |-> 8,
             Hour |-> 18, Min |-> 27, Sec |-> 14, Nsec |-> 123456,
             Unix |-> <<34, 36, 22, 89, 13>>,                 \* 1389223634
             UnixNano |-> <<56, 34, 12, 0, 40, 63, 23, 92, 38, 1>>],
   Severity |-> PANIC,
   File |-> <<47, 112, 97, 116, 104, 47, 116, 111, 47, 116, 101, 115, 116,
              105, 110, 103, 46, 103, 111>>,        \* "/path/to/testing.go"
   Line |-> 391,
   Message |-> <<104, 101, 108, 108, 111, 32, 116, 104, 101, 114, 101, 33>>,
                                                    \* "hello there!"
   Function |-> <<112, 107, 103, 46, 102, 117, 110, 99>>,   \* "pkg.func"
   Package |-> <<112, 107, 103>>]                           \* "pkg"

\* a record that carries nothing: the epoch, NONE, no file, no message
emptyRecord ==
  [Time |-> [Year |-> 1970, Month |-> 1, Day |-> 1,
             Hour |-> 0, Min |-> 0, Sec |-> 0, Nsec |-> 0,
             Unix |-> <<>>, UnixNano |-> <<>>],
   Severity |-> NONE, File |-> <<>>, Line |-> 0, Message |-> <<>>,
   Function |-> <<>>, Package |-> <<>>]

\* a record of a method in a nested package: its message has control bytes,
\* a two-byte rune and a final newline, its file a base name of one byte
methodRecord ==
  [Time |-> [Year |-> 1999, Month |-> 12, Day |-> 31,
             Hour |-> 23, Min |-> 59, Sec |-> 59, Nsec |-> 999999999,
             Unix |-> <<99, 47, 68, 46, 9>>,                  \* 946684799
             UnixNano |-> <<99, 99, 99, 99, 99, 79, 84, 66, 94>>],
   Severity |-> INFO,
   File |-> <<100, 47, 109>>,                               \* "d/m"
   Line |-> 7,
   Message |-> <<9, 195, 169, 10>>,                         \* "\té\n"
   Function |-> <<103, 105, 116, 104, 117, 98, 46, 99, 111, 109, 47, 107,
                  100, 97, 114, 47, 102, 97, 99, 116, 111, 114, 108, 111,
                  103, 46, 40, 42, 84, 41, 46, 82, 117, 110>>,
                                    \* "github.com/kdar/factorlog.(*T).Run"
   Package |-> <<103, 105, 116, 104, 117, 98, 46, 99, 111, 109, 47, 107,
                 100, 97, 114, 47, 102, 97, 99, 116, 111, 114, 108, 111,
                 103, 46, 40, 42, 84, 41>>]

\* a record whose severity is past PANIC, as Log(sev, ...) lets through
wildRecord ==
  [Time |-> [Year |-> 2014, Month |-> 1, Day |-> 8,
             Hour |-> 18, Min |-> 27, Sec |-> 14, Nsec |-> 123456,
             Unix |-> <<34, 36, 22, 89, 13>>,
             UnixNano |-> <<56, 34, 12, 0, 40, 63, 23, 92, 38, 1>>],
   Severity |-> PANIC + 1,
   File |-> <<109, 97, 105, 110, 46, 103, 111>>,            \* "main.go"
   Line |-> 1000,
   Message |-> <<120, 10, 121>>,                            \* "x\ny"
   Function |-> <<109, 97, 105, 110, 46, 109, 97, 105, 110>>, \* "main.main"
   Package |-> <<109, 97, 105, 110>>]                       \* "main"

\* a record of Output when runtime.Caller failed (file = "???", line = 0),
\* logged with a severity below NONE
noCallerRecord ==
  [Time |-> [Year |-> 2014, Month |-> 1, Day |-> 8,
             Hour |-> 18, Min |-> 27, Sec |-> 14, Nsec |-> 5000,
             Unix |-> <<34, 36, 22, 89, 13>>,
             UnixNano |-> <<0, 50, 0, 0, 34, 36, 22, 89, 13>>],
   Severity |-> NONE - 1,
   File |-> <<63, 63, 63>>,                                 \* "???"
   Line |-> 0,
   Message |-> <<110, 111>>,                                \* "no"
   Function |-> <<>>,
   Package |-> <<>>]

Records ==
  <<fmtTestsData, emptyRecord, methodRecord, wildRecord, noCallerRecord>>

RecordIds == 1..Len(Records)

(***************************************************************************)
(* Templates: every concatenation of at most MaxChunks pieces of a small   *)
(* alphabet, every verb on its own, and the templates of the tests.        *)
(***************************************************************************)

MaxChunksA == 3
MaxChunksB == 2

RECURSIVE Concat(_)
Concat(ss) == IF ss = <<>> THEN <<>> ELSE Head(ss) \o Concat(Tail(ss))

ChunkStrings(chunks, n) ==
  { Concat(cs) : cs \in UNION { [1..k -> chunks] : k \in 0..n } }

\* "%", "M", "s", "T", "@", "a", "\n", "é"
A_Chunks ==
  { <<37>>, <<77>>, <<115>>, <<84>>, <<64>>, <<97>>, <<10>>, <<195, 169>> }

A_VerbLetters == {84, 116, 68, 100, 76, 108, 70, 102, 120, 115, 77, 80, 112}

\* templates of fmtTests in src/format_test.go: "[%D %t] [%L:%f:%s] %M" of
\* BenchmarkFormatter, "just text here", "%notsupported"
A_TestTemplates ==
  { <<91, 37, 68, 32, 37, 116, 93, 32, 91, 37, 76, 58, 37, 102, 58, 37,
      115, 93, 32, 37, 77>>,
    <<106, 117, 115, 116, 32, 116, 101, 120, 116, 32, 104, 101, 114, 101>>,
    <<37, 110, 111, 116, 115, 117, 112, 112, 111, 114, 116, 101, 100>>,
    <<37, 100, 32, 37, 116, 32, 37, 77>> }                 \* "%d %t %M" of std

A_Templates ==
  ChunkStrings(A_Chunks, MaxChunksA)
    \cup { <<37, c>> : c \in A_VerbLetters } \cup A_TestTemplates

\* "%{Message}", "%{Line}", "%{Bogus}", "%{Color red}", "%{", "}", "%",
\* "\n", "é"
B_Chunks ==
  { <<37, 123, 77, 101, 115, 115, 97, 103, 101, 125>>,
    <<37, 123, 76, 105, 110, 101, 125>>,
    <<37, 123, 66, 111, 103, 117, 115, 125>>,
    <<37, 123, 67, 111, 108, 111, 114, 32, 114, 101, 100, 125>>,
    <<37, 123>>, <<125>>, <<37>>, <<10>>, <<195, 169>> }

\* the keys of verbMap
B_VerbNames ==
  { <<83, 69, 86, 69, 82, 73, 84, 89>>, <<83, 101, 118, 101, 114, 105, 116, 121>>,
    <<115, 101, 118, 101, 114, 105, 116, 121>>, <<83, 69, 86>>, <<83, 101, 118>>,
    <<115, 101, 118>>, <<83>>, <<115>>, <<68, 97, 116, 101>>, <<84, 105, 109, 101>>,
    <<85, 110, 105, 120>>, <<85, 110, 105, 120, 78, 97, 110, 111>>,
    <<70, 117, 108, 108, 70, 105, 108, 101>>, <<70, 105, 108, 101>>,
    <<83, 104, 111, 114, 116, 70, 105, 108, 101>>, <<76, 105, 110, 101>>,
    <<70, 117, 108, 108, 70, 117, 110, 99, 116, 105, 111, 110>>,
    <<80, 107, 103, 70, 117, 110, 99, 116, 105, 111, 110>>,
    <<70, 117, 110, 99, 116, 105, 111, 110>>, <<67, 111, 108, 111, 114>>,
    <<77, 101, 115, 115, 97, 103, 101>>,
    <<83, 97, 102, 101, 77, 101, 115, 115, 97, 103, 101>> }

\* the templates of std, of logTests in src/factorlog_test.go, and
\* "%{Color reset}", "a%{Bogus x}b"
B_TestTemplates ==
  { <<37, 123, 68, 97, 116, 101, 125, 32, 37, 123, 84, 105, 109, 101,
      125, 32, 37, 123, 77, 101, 115, 115, 97, 103, 101, 125>>,
    <<37, 123, 70, 117, 108, 108, 70, 117, 110, 99, 116, 105, 111, 110,
      125, 32, 91, 37, 123, 83, 69, 86, 69, 82, 73, 84, 89, 125, 58, 37,
      123, 83, 69, 86, 125, 58, 37, 123, 70, 105, 108, 101, 125, 58, 37,
      123, 83, 104, 111, 114, 116, 70, 105, 108, 101, 125, 93, 32, 37, 37,
      123, 77, 101, 115, 115, 97, 103, 101, 125, 37>>,
    <<37, 123, 77, 101, 115, 115, 97, 103, 101, 125, 32, 37, 123, 70,
      105, 108, 101, 125>>,
    <<37, 123, 67, 111, 108, 111, 114, 32, 114, 101, 115, 101, 116, 125>>,
    <<97, 37, 123, 66, 111, 103, 117, 115, 32, 120, 125, 98>> }

B_Templates ==
  ChunkStrings(B_Chunks, MaxChunksB)
    \cup { <<37, 123>> \o n \o <<125>> : n \in B_VerbNames } \cup B_TestTemplates

(***************************************************************************)
(* The state: one StdFormatter of either grammar and the calls of Format   *)
(* on it.                                                                  *)
(***************************************************************************)

VARIABLES
  gram,      \* "A" or "B": the grammar of the formatter
  f,         \* the StdFormatter: frmt, strings, parts, flags, tmp, cap(stmp)
  status,    \* "new", or how the last call of Format ended: "returned", "panicked"
  rec,       \* the record of the last call of Format (an index of Records), 0 for none
  body,      \* the local buf of that call when its loop over parts ended
  out,       \* the bytes that call returned
  prevRec,   \* the record of the last call that returned before it, 0 for none
  prev,      \* the bytes that earlier call returned, as they are now
  enc,       \* a call of an encoder of util.go on its own: its arguments, its result
  mu,        \* FactorLog.mu: 0 when unlocked, else the goroutine that locked it
  lg,        \* the other fields of the FactorLog and the state of the process
  gor,       \* each goroutine's call on the FactorLog and its position in it
  sink,      \* what each io.Writer has been handed, in the order of the Writes
  now        \* the number of values time.Now() has returned

vars == <<gram, f, status, rec, body, out, prevRec, prev, enc,
          mu, lg, gor, sink, now>>

logVars == <<mu, lg, gor, sink, now>>

\* no encoder is called on its own
EncIdle == [op |-> "idle"]

\* no FactorLog has been made
NoLogger ==
  /\ mu = 0
  /\ lg = [made |-> FALSE]
  /\ gor = <<>>
  /\ sink = <<>>
  /\ now = 0

NewStdFormatter(g, frmt) ==
  IF g = "A" THEN A_NewStdFormatter(frmt) ELSE B_NewStdFormatter(frmt)

Templates(g) == IF g = "A" THEN A_Templates ELSE B_Templates

Init ==
  /\ gram \in {"A", "B"}
  /\ \E frmt \in Templates(gram) : f = NewStdFormatter(gram, frmt)
  /\ status = IF f.ok THEN "new" ELSE "panicked"
  /\ rec = 0
  /\ body = <<>>
  /\ out = <<>>
  /\ prevRec = 0
  /\ prev = <<>>
  /\ enc = EncIdle
  /\ NoLogger

\* What a call of Format that ended in the render state rs leaves behind.
\* The call writes f.tmp, f.stmp and its own fresh buffer, nothing else.
AfterFormat(r, rs) ==
  /\ f' = [f EXCEPT !.tmp = rs.tmp, !.stmpCap = rs.stmpCap]
  /\ status' = IF rs.ok THEN "returned" ELSE "panicked"
  /\ rec' = r
  /\ body' = rs.body
  /\ out' = rs.buf
  /\ prevRec' = IF status = "returned" THEN rec ELSE prevRec
  /\ prev' = IF status = "returned" THEN out ELSE prev
  /\ UNCHANGED <<gram, enc, logVars>>

\* f.Format(Records[r]) on a formatter of Grammar A
A_FormatCall(r) ==
  /\ gram = "A"
  /\ f.ok
  /\ AfterFormat(r, A_Format(f, Records[r]))

\* f.Format(Records[r]) on a formatter of Grammar B
B_FormatCall(r) ==
  /\ gram = "B"
  /\ f.ok
  /\ AfterFormat(r, B_Format(f, Records[r]))

Next ==
  \E r \in RecordIds :
    \/ A_FormatCall(r)
    \/ B_FormatCall(r)

Spec == Init /\ [][Next]_vars

(***************************************************************************)
(* Properties                                                              *)
(***************************************************************************)

Returned == status = "returned"

\* the record of the last call
LastRecord == Records[rec]

\* s with one '\n' after it when s is not empty and does not end in one
WithTerminator(s) ==
  IF s = <<>> THEN <<>>
  ELSE IF s[Len(s)] = 10 THEN s
  ELSE s \o <<10>>

\* what part k of the compiled formatter renders for a record on its own,
\* with scratch buffers nothing has written to
SegmentOf(g, fm, data, k) ==
  LET rs == [buf |-> <<>>, tmp |-> MakeBytes(64), stmpCap |-> 64,
             stringi |-> Cardinality({j \in 1..(k - 1) : fm.parts[j] = 1}),
             ok |-> TRUE]
  IN IF g = "A" THEN A_RenderPart(fm, data, rs, fm.parts[k]).buf
     ELSE B_RenderPart(fm, data, rs, fm.parts[k]).buf

SegmentsOf(g, fm, data) ==
  [k \in 1..Len(fm.parts) |-> SegmentOf(g, fm, data, k)]

\* C1: whenever Format returns, in both grammars, the bytes returned are the
\* rendered segments concatenated, with exactly one '\n' after them iff the
\* concatenation is not empty and does not end in '\n'; an empty
\* concatenation is returned as the empty byte sequence.
C1_LineTerminator ==
  Returned =>
    LET cat == Concat(SegmentsOf(gram, f, LastRecord)) IN
    /\ body = cat
    /\ (cat = <<>> => out = <<>>)
    /\ (cat # <<>> /\ cat[Len(cat)] = 10 => out = cat)
    /\ (cat # <<>> /\ cat[Len(cat)] # 10 => out = cat \o <<10>>)

\* a call returned segments that end in '\n' of themselves, and no second
\* terminator was added
C1_Witness ==
  /\ Returned
  /\ Len(f.parts) >= 2
  /\ body # <<>>
  /\ body[Len(body)] = 10
  /\ out = body

\* C2: NewStdFormatter returns a formatter for every template, in both
\* grammars: no slice or index of the compiler is ever out of range.
C2_CompileTotal == f.ok

\* the formatter of the unterminated verb "%{"
C2_Witness ==
  /\ gram = "B"
  /\ f.frmt = <<37, 123>>
  /\ f.ok
  /\ f.parts = <<B_vSTRING>>

(***************************************************************************)
(* The template grammars as the documentation states them, and what a      *)
(* template is expected to render.                                         *)
(***************************************************************************)

\* scratch buffers nothing has written to
FreshScratch ==
  [buf |-> <<>>, tmp |-> MakeBytes(64), stmpCap |-> 64, stringi |-> 0,
   ok |-> TRUE]

IsASCII(s) == \A k \in 1..Len(s) : s[k] < 128

\* The tokens of a Grammar A template from byte offset i: a character that
\* is not the sentinel ("lit"), the sentinel and a verb letter ("verb"), the
\* doubled sentinel ("pct"), the sentinel and any other character
\* ("unknown"), the sentinel at the end of the template ("stray").
RECURSIVE A_TokensFrom(_, _)
A_TokensFrom(frmt, i) ==
  IF i >= Len(frmt) THEN <<>>
  ELSE LET r == DecodeRune(frmt, i) IN
       IF r.rune # 37
       THEN <<[kind |-> "lit", rune |-> r.rune,
               text |-> Slice(frmt, i, i + r.width)]>>
              \o A_TokensFrom(frmt, i + r.width)
       ELSE IF i + 1 >= Len(frmt)
       THEN <<[kind |-> "stray", rune |-> 37, text |-> <<37>>]>>
       ELSE LET x == DecodeRune(frmt, i + 1)
                k == IF x.rune = 37 THEN "pct"
                     ELSE IF x.rune \in A_VerbLetters THEN "verb"
                     ELSE "unknown"
            IN <<[kind |-> k, rune |-> x.rune,
                  text |-> Slice(frmt, i, i + 1 + x.width)]>>
                 \o A_TokensFrom(frmt, i + 1 + x.width)

A_Tokens(frmt) == A_TokensFrom(frmt, 0)

A_Kinds(frmt) == { A_Tokens(frmt)[k].kind : k \in 1..Len(A_Tokens(frmt)) }

\* every token of the template that is not a verb is made of ASCII
A_PlainASCII(frmt) ==
  \A k \in 1..Len(A_Tokens(frmt)) :
    A_Tokens(frmt)[k].kind # "verb" => IsASCII(A_Tokens(frmt)[k].text)

\* what one token is expected to put in the output: a verb its rendering,
\* the doubled sentinel one sentinel, anything else its own text
A_TokenBytes(tok, data) ==
  CASE tok.kind = "verb" ->
         A_RenderPart(f, data, FreshScratch, A_VerbOf(tok.rune)).buf
    [] tok.kind = "pct" -> <<37>>
    [] OTHER -> tok.text

A_Expected(frmt, data) ==
  LET toks == A_Tokens(frmt) IN
  WithTerminator(Concat([k \in 1..Len(toks) |-> A_TokenBytes(toks[k], data)]))

\* The tokens of a Grammar B template are the matches of formatRe; the text
\* between them is literal.
B_Matches(frmt) == FindAllStringSubmatchIndex(frmt)

B_NameOf(frmt, m) == Slice(frmt, m[3], m[4])

B_ArgOf(frmt, m) == IF m[5] = -1 THEN <<>> ELSE Slice(frmt, m[5], m[6])

\* what one match is expected to put in the output: an unknown name its own
\* text, Color its escape string, any other verb its rendering
B_MatchBytes(frmt, m, data) ==
  LET name == B_NameOf(frmt, m) IN
  IF name \notin B_VerbNames THEN Slice(frmt, m[1], m[2])
  ELSE IF name = <<67, 111, 108, 111, 114>>
  THEN IF B_ArgOf(frmt, m) = <<114, 101, 115, 101, 116>> THEN ansiReset
       ELSE ansiColorCode(B_ArgOf(frmt, m))
  ELSE B_RenderPart(f, data, FreshScratch, verbMap(name)).buf

\* the literal text before match k, or after the last match
B_Gap(frmt, ms, k) ==
  Slice(frmt, IF k = 1 THEN 0 ELSE ms[k - 1][2],
              IF k > Len(ms) THEN Len(frmt) ELSE ms[k][1])

B_Expected(frmt, data) ==
  LET ms == B_Matches(frmt) IN
  WithTerminator(Concat(
    [k \in 1..(2 * Len(ms) + 1) |->
       IF k % 2 = 1 THEN B_Gap(frmt, ms, (k + 1) \div 2)
       ELSE B_MatchBytes(frmt, ms[k \div 2], data)]))

\* C3: in Grammar A a token '%X' whose X is neither a verb letter nor '%'
\* is rendered as the text '%X' where it stands: a template made of verbs,
\* such tokens and ASCII literals renders the verbs and the text of every
\* other token in the order of the template.
C3_UnknownVerbLiteralA ==
  (gram = "A" /\ Returned) =>
    LET toks == A_Tokens(f.frmt) IN
    ( /\ "unknown" \in A_Kinds(f.frmt)
      /\ A_Kinds(f.frmt) \subseteq {"lit", "verb", "unknown"}
      /\ \A k \in 1..Len(toks) :
           toks[k].kind = "lit" => IsASCII(toks[k].text) )
    => out = A_Expected(f.frmt, LastRecord)

\* C4: in Grammar B a token '%{Name}' or '%{Name arg}' whose Name is not in
\* the verb table is rendered as its own text, wrapper included, where it
\* stands between the literal text and the other verbs.
C4_UnknownVerbLiteralB ==
  (gram = "B" /\ Returned) =>
    LET ms == B_Matches(f.frmt) IN
    (\E k \in 1..Len(ms) : B_NameOf(f.frmt, ms[k]) \notin B_VerbNames)
    => out = B_Expected(f.frmt, LastRecord)

\* a byte no template and no record holds, standing for a literal character
Mark == <<1>>

\* s with the sentinel in the place of every Mark
Unmarked(s) == [k \in 1..Len(s) |-> IF s[k] = Mark[1] THEN 37 ELSE s[k]]

\* the Grammar A template with Mark in the place of every doubled sentinel
A_Unescaped(frmt) ==
  LET toks == A_Tokens(frmt) IN
  Concat([k \in 1..Len(toks) |->
            IF toks[k].kind = "pct" THEN Mark ELSE toks[k].text])

\* byte offset i of the template is inside a match of formatRe
B_InMatch(frmt, i) ==
  \E k \in 1..Len(B_Matches(frmt)) :
    B_Matches(frmt)[k][1] <= i /\ i < B_Matches(frmt)[k][2]

\* the Grammar B template with Mark in the place of every sentinel that is
\* outside the matches of formatRe
B_Unescaped(frmt) ==
  [k \in 1..Len(frmt) |->
     IF frmt[k] = 37 /\ ~B_InMatch(frmt, k - 1) THEN Mark[1] ELSE frmt[k]]

\* the template holds two sentinels in a row
HasDoubled(frmt) ==
  \E k \in 1..(Len(frmt) - 1) : frmt[k] = 37 /\ frmt[k + 1] = 37

\* s with every doubled sentinel, taken from the left, made a single one
RECURSIVE Collapsed(_)
Collapsed(s) ==
  IF Len(s) < 2 THEN s
  ELSE IF s[1] = 37 /\ s[2] = 37 THEN <<37>> \o Collapsed(Tail(Tail(s)))
  ELSE <<s[1]>> \o Collapsed(Tail(s))

\* what a formatter compiled now from the template returns for the record
RenderOf(g, frmt, data) ==
  IF g = "A" THEN A_Format(A_NewStdFormatter(frmt), data).buf
  ELSE B_Format(B_NewStdFormatter(frmt), data).buf

\* C5 as stated: in both grammars every doubled sentinel '%%' of a template
\* is rendered as one literal '%', so a template of just '%%' renders
\* '%\n' (Grammar A: templates of verbs, ASCII literals and doubled
\* sentinels; Grammar B: templates without a verb).
C5_DoubledSentinelBoth ==
  Returned =>
    /\ ( /\ gram = "A"
         /\ "pct" \in A_Kinds(f.frmt)
         /\ A_Kinds(f.frmt) \subseteq {"lit", "verb", "pct"}
         /\ A_PlainASCII(f.frmt) )
       => out = A_Expected(f.frmt, LastRecord)
    /\ (gram = "B" /\ HasDoubled(f.frmt) /\ B_Matches(f.frmt) = <<>>)
       => out = WithTerminator(Collapsed(f.frmt))

\* C5, amended: in Grammar A every doubled sentinel renders as one literal
\* '%', as a literal character in its place would render had it been '%';
\* Grammar B has no escape: a '%' outside a '%{Name}' token is an ordinary
\* literal character, and a template of just '%%' renders '%%\n'.
C5_DoubledSentinel ==
  Returned =>
    /\ (gram = "A" /\ "pct" \in A_Kinds(f.frmt))
       => out = Unmarked(RenderOf("A", A_Unescaped(f.frmt), LastRecord))
    /\ (gram = "A" /\ f.frmt = <<37, 37>>) => out = <<37, 10>>
    /\ (gram = "B" /\ HasDoubled(f.frmt))
       => out = Unmarked(RenderOf("B", B_Unescaped(f.frmt), LastRecord))
    /\ (gram = "B" /\ f.frmt = <<37, 37>>) => out = <<37, 37, 10>>

\* the Grammar A template "%%M" rendered as "%M\n": one sentinel, and the
\* letter after it a literal
C5_Witness ==
  /\ gram = "A"
  /\ Returned
  /\ f.frmt = <<37, 37, 77>>
  /\ f.parts = <<A_vSTRING>>
  /\ out = <<37, 77, 10>>

\* C6: in Grammar A a '%' that is the last character of the template, with
\* no verb character after it, is rendered as a literal '%' and not dropped.
C6_TrailingSentinelLiteral ==
  (gram = "A" /\ Returned /\ "stray" \in A_Kinds(f.frmt)
     /\ A_PlainASCII(f.frmt))
  => out = A_Expected(f.frmt, LastRecord)

\* C7: a template without verb syntax (no '%' in Grammar A, no match of
\* formatRe in Grammar B), multi-byte characters included, renders for every
\* record as its own bytes, with '\n' after them when it is not empty and
\* does not end in one.
C7_LiteralRoundTrip ==
  ( /\ Returned
    /\ \/ gram = "A" /\ \A k \in 1..Len(f.frmt) : f.frmt[k] # 37
       \/ gram = "B" /\ B_Matches(f.frmt) = <<>> )
  => out = WithTerminator(f.frmt)

\* whether a formatter compiled now from the template returns for the record
RenderReturns(g, frmt, data) ==
  IF g = "A" THEN A_Format(A_NewStdFormatter(frmt), data).ok
  ELSE B_Format(B_NewStdFormatter(frmt), data).ok

\* C8: what Format returns is a function of the template and the record:
\* the formatter in use, whatever it rendered before, returns (or fails to
\* return) what a formatter compiled now from the same template returns for
\* the same record, and the bytes an earlier call returned are still what
\* that call's record renders to.
C8_Deterministic ==
  /\ rec # 0 => (Returned <=> RenderReturns(gram, f.frmt, LastRecord))
  /\ Returned => out = RenderOf(gram, f.frmt, LastRecord)
  /\ prevRec # 0 => prev = RenderOf(gram, f.frmt, Records[prevRec])

\* a formatter whose scratch buffer holds what an earlier call wrote has
\* rendered another record, to other bytes
C8_Witness ==
  /\ Returned
  /\ prevRec # 0
  /\ prevRec # rec
  /\ f.tmp # MakeBytes(64)
  /\ out # prev
  /\ out # <<>>

\* the verbs that need caller metadata
A_LocationLetters == {70, 102, 120, 115, 80, 112}   \* F f x s P p

B_LocationNames ==
  { <<70, 117, 108, 108, 70, 105, 108, 101>>,                      \* FullFile
    <<70, 105, 108, 101>>,                                         \* File
    <<83, 104, 111, 114, 116, 70, 105, 108, 101>>,                 \* ShortFile
    <<76, 105, 110, 101>>,                                         \* Line
    <<70, 117, 108, 108, 70, 117, 110, 99, 116, 105, 111, 110>>,   \* FullFunction
    <<80, 107, 103, 70, 117, 110, 99, 116, 105, 111, 110>>,        \* PkgFunction
    <<70, 117, 110, 99, 116, 105, 111, 110>> }                     \* Function

\* the template holds a recognised verb that needs caller metadata
HasLocationVerb(g, frmt) ==
  IF g = "A"
  THEN \E k \in 1..Len(A_Tokens(frmt)) :
         /\ A_Tokens(frmt)[k].kind = "verb"
         /\ A_Tokens(frmt)[k].rune \in A_LocationLetters
  ELSE \E k \in 1..Len(B_Matches(frmt)) :
         B_NameOf(frmt, B_Matches(frmt)[k]) \in B_LocationNames

ShouldRuntimeCaller(g, fm) ==
  IF g = "A" THEN A_ShouldRuntimeCaller(fm) ELSE B_ShouldRuntimeCaller(fm)

\* C9: ShouldRuntimeCaller() is true iff the template holds at least one
\* recognised verb that needs caller metadata (Grammar A: F f x s P p;
\* Grammar B: FullFile, File, ShortFile, Line, FullFunction, PkgFunction,
\* Function); literals, date, time, severity, message, unknown and escaped
\* verbs leave it false.
C9_RuntimeCallerIff ==
  f.ok => (ShouldRuntimeCaller(gram, f) <=> HasLocationVerb(gram, f.frmt))

\* the Grammar A template "%sM": the line verb, which asks for the caller,
\* and a literal
C9_Witness ==
  /\ gram = "A"
  /\ f.frmt = <<37, 115, 77>>
  /\ f.parts = <<A_vLINE, A_vSTRING>>
  /\ f.flags = A_vLINE
  /\ A_ShouldRuntimeCaller(f)

\* the Grammar B template with the escape string of every Color verb in the
\* verb's place
B_ColorSpliced(frmt) ==
  LET ms == B_Matches(frmt) IN
  Concat(
    [k \in 1..(2 * Len(ms) + 1) |->
       IF k % 2 = 1 THEN B_Gap(frmt, ms, (k + 1) \div 2)
       ELSE LET m == ms[k \div 2] IN
            IF B_NameOf(frmt, m) = <<67, 111, 108, 111, 114>>
            THEN IF B_ArgOf(frmt, m) = <<114, 101, 115, 101, 116>>
                 THEN ansiReset
                 ELSE ansiColorCode(B_ArgOf(frmt, m))
            ELSE Slice(frmt, m[1], m[2])])

\* C10: in Grammar B a Color verb is resolved when the template is
\* compiled: the parts never hold vColor, flags never has its bit, a
\* template without a location verb never asks for the caller, and the
\* template renders as it would with the escape string written as literal
\* text in the verb's place.
C10_ColorAtCompile ==
  (gram = "B" /\ f.ok) =>
    /\ \A k \in 1..Len(f.parts) : f.parts[k] # B_vColor
    /\ BitAnd(f.flags, B_vColor) = 0
    /\ ~HasLocationVerb("B", f.frmt) => ~B_ShouldRuntimeCaller(f)
    /\ Returned => out = RenderOf("B", B_ColorSpliced(f.frmt), LastRecord)

\* the template "%{Color red}%{Message}" rendered fmtTestsData as the escape
\* string of red and the message
C10_Witness ==
  /\ gram = "B"
  /\ Returned
  /\ rec = 1
  /\ f.frmt = <<37, 123, 67, 111, 108, 111, 114, 32, 114, 101, 100, 125,
                37, 123, 77, 101, 115, 115, 97, 103, 101, 125>>
  /\ f.parts = <<B_vSTRING, B_vMessage>>
  /\ f.flags = B_vMessage
  /\ out = ansiColorCode(<<114, 101, 100>>) \o fmtTestsData.Message \o <<10>>

(***************************************************************************)
(* Verbs of a template by kind                                             *)
(***************************************************************************)

\* the template holds a recognised verb whose letter (Grammar A) or name
\* (Grammar B) is in the given set
HasVerb(g, frmt, letters, names) ==
  IF g = "A"
  THEN \E k \in 1..Len(A_Tokens(frmt)) :
         /\ A_Tokens(frmt)[k].kind = "verb"
         /\ A_Tokens(frmt)[k].rune \in letters
  ELSE \E k \in 1..Len(B_Matches(frmt)) :
         B_NameOf(frmt, B_Matches(frmt)[k]) \in names

A_SeverityLetters == {76, 108}                               \* L l

B_SeverityNames ==
  { <<83, 69, 86, 69, 82, 73, 84, 89>>, <<83, 101, 118, 101, 114, 105, 116, 121>>,
    <<115, 101, 118, 101, 114, 105, 116, 121>>, <<83, 69, 86>>, <<83, 101, 118>>,
    <<115, 101, 118>>, <<83>>, <<115>> }

HasSeverityVerb == HasVerb(gram, f.frmt, A_SeverityLetters, B_SeverityNames)

\* the extra-short file verb: x of Grammar A, ShortFile of Grammar B
HasExtraShortVerb ==
  HasVerb(gram, f.frmt, {120}, {<<83, 104, 111, 114, 116, 70, 105, 108, 101>>})

\* C11: for every severity verb and every Severity of the record, those
\* below NONE and above PANIC included, Format indexes no severity table
\* out of bounds: a call on a template with a severity verb (and no
\* extra-short file verb) returns.
C11_SeverityInBounds ==
  (rec # 0 /\ HasSeverityVerb /\ ~HasExtraShortVerb) => Returned

\* the templates of one file-path verb: "%F", "%f", "%x" of Grammar A,
\* "%{FullFile}", "%{File}", "%{ShortFile}" of Grammar B
FileVerbTemplates ==
  IF gram = "A" THEN { <<37, 70>>, <<37, 102>>, <<37, 120>> }
  ELSE { <<37, 123, 70, 117, 108, 108, 70, 105, 108, 101, 125>>,
         <<37, 123, 70, 105, 108, 101, 125>>,
         <<37, 123, 83, 104, 111, 114, 116, 70, 105, 108, 101, 125>> }

\* the record carries no file information: its File is empty, or is the
\* "???" Output puts there when the caller lookup failed
NoFileInformation(data) == data.File \in { <<>>, <<63, 63, 63>> }

\* C12: every file-path verb (full path, base name, extra-short, in both
\* grammars) renders the placeholder "???" for a record that carries no
\* file information.
C12_FilePlaceholder ==
  (rec # 0 /\ NoFileInformation(LastRecord) /\ f.frmt \in FileVerbTemplates)
  => (Returned /\ out = <<63, 63, 63, 10>>)

\* the base name of a file path: what follows its last path separator, the
\* whole path when it has none
BaseName(file) ==
  LET seps == { k \in 1..Len(file) : file[k] = 47 } IN
  IF seps = {} THEN file
  ELSE SubSeq(file, (CHOOSE k \in seps : \A j \in seps : j <= k) + 1, Len(file))

\* C13: the extra-short file verb ('%x', '%{ShortFile}') never underflows:
\* for a record whose file base name has 0, 1 or 2 characters, a call on a
\* template with that verb (and no severity verb) returns.
C13_ExtraShortNoUnderflow ==
  ( /\ rec # 0
    /\ HasExtraShortVerb
    /\ ~HasSeverityVerb
    /\ Len(BaseName(LastRecord.File)) < 3 )
  => Returned

\* s without its last n bytes
DropLast(s, n) == SubSeq(s, 1, Len(s) - n)

\* the templates of one base-name verb ("%f", "%{File}") and of one
\* extra-short verb ("%x", "%{ShortFile}")
BaseNameTemplate ==
  IF gram = "A" THEN <<37, 102>> ELSE <<37, 123, 70, 105, 108, 101, 125>>

ExtraShortTemplate ==
  IF gram = "A" THEN <<37, 120>>
  ELSE <<37, 123, 83, 104, 111, 114, 116, 70, 105, 108, 101, 125>>

\* C14: for every non-empty file path the base-name verb renders what
\* follows the last path separator (the whole path when it has none), and
\* the extra-short verb renders that base name without its last 3
\* characters ('/path/to/testing.go' gives 'testing.go' and 'testing').
C14_BaseName ==
  (rec # 0 /\ LastRecord.File # <<>>) =>
    /\ f.frmt = BaseNameTemplate =>
         (Returned /\ out = WithTerminator(BaseName(LastRecord.File)))
    /\ f.frmt = ExtraShortTemplate =>
         (Returned /\ out = WithTerminator(DropLast(BaseName(LastRecord.File), 3)))

\* the decimal digits of n, zero-padded to the width w
Padded(n, w) == [k \in 1..w |-> 48 + ((n \div (10 ^ (w - k))) % 10)]

\* "HH:MM:SS" of a time
ClockText(t) ==
  Padded(t.Hour, 2) \o <<58>> \o Padded(t.Min, 2) \o <<58>> \o Padded(t.Sec, 2)

\* C15: in Grammar A '%T' renders the time of the record as the 15 bytes
\* 'HH:MM:SS.uuuuuu', uuuuuu being the microsecond within the second,
\* floor(nanosecond / 1000), zero-padded to six digits; '%t' renders the
\* same 'HH:MM:SS' and no fraction.
C15_TimeMicroseconds ==
  (gram = "A" /\ Returned) =>
    /\ f.frmt = <<37, 84>> =>
         out = ClockText(LastRecord.Time) \o <<46>>
                 \o Padded(LastRecord.Time.Nsec \div 1000, 6) \o <<10>>
    /\ f.frmt = <<37, 116>> => out = ClockText(LastRecord.Time) \o <<10>>

\* a nibble as a lower-case hexadecimal digit
HexDigit(n) == IF n < 10 THEN 48 + n ELSE 87 + n

\* the message with '\xHH' in the place of every byte below 32
RECURSIVE SafeText(_)
SafeText(msg) ==
  IF msg = <<>> THEN <<>>
  ELSE (IF Head(msg) < 32
        THEN <<92, 120, HexDigit(Head(msg) \div 16), HexDigit(Head(msg) % 16)>>
        ELSE <<Head(msg)>>) \o SafeText(Tail(msg))

\* C16: '%{SafeMessage}' renders the message with every byte below 32
\* replaced by the four characters '\xHH', HH the two hexadecimal digits of
\* the byte (newline becomes '\x0a'), and every other byte unchanged; the
\* rendered field holds no byte below 32.
C16_SafeMessageHex ==
  ( /\ gram = "B"
    /\ Returned
    /\ f.frmt = <<37, 123, 83, 97, 102, 101, 77, 101, 115, 115, 97, 103, 101, 125>> )
  => /\ out = WithTerminator(SafeText(LastRecord.Message))
     /\ \A k \in 1..Len(body) : body[k] >= 32

\* the last '.' of s (from 1), 0 when it has none
LastDot(s) ==
  LET dots == { k \in 1..Len(s) : s[k] = 46 } IN
  IF dots = {} THEN 0 ELSE CHOOSE k \in dots : \A j \in dots : j <= k

\* data.Package as Output derives it from data.Function = me.Name():
\* n := strings.LastIndex(data.Function, "."); data.Package = data.Function[:n]
OutputPackage(fun) ==
  IF LastDot(fun) = 0 THEN <<>> ELSE SubSeq(fun, 1, LastDot(fun) - 1)

\* the record is one Output can make: its Package is derived from its Function
FromOutput(data) == data.Package = OutputPackage(data.Function)

\* the bare function name: what follows the last '.' of the identifier
BareFunction(fun) == SubSeq(fun, LastDot(fun) + 1, Len(fun))

\* C17: in Grammar A, for every record Output produces, '%P' renders the
\* fully-qualified function identifier and '%p' the bare function name, the
\* part of the identifier after its package qualifier.
C17_FunctionVerbsA ==
  (gram = "A" /\ Returned /\ FromOutput(LastRecord)) =>
    /\ f.frmt = <<37, 80>> => out = WithTerminator(LastRecord.Function)
    /\ f.frmt = <<37, 112>> =>
         out = WithTerminator(BareFunction(LastRecord.Function))

\* C18: in Grammar B '%{Function}' renders what follows the LAST '.' of the
\* function identifier, also when its final path segment has several dots
\* ('pkg.(*T).Method'); an identifier without a '.' in its final segment
\* is rendered whole.
C18_FunctionLastDot ==
  ( /\ gram = "B"
    /\ Returned
    /\ f.frmt = <<37, 123, 70, 117, 110, 99, 116, 105, 111, 110, 125>> )
  => out = WithTerminator(
             IF LastDot(BaseName(LastRecord.Function)) = 0
             THEN LastRecord.Function
             ELSE BareFunction(LastRecord.Function))

(***************************************************************************)
(* The encoders of util.go called on their own: a buffer of 64 bytes, an   *)
(* offset, a value and a width are chosen, and one encoder is applied.     *)
(***************************************************************************)

\* the values 0..EncMaxSmall are tried one by one
EncMaxSmall == 120

\* values at the powers of ten, and the largest int32
EncBigValues ==
  { 999, 1000, 1001, 9999, 10000, 12345, 99999, 100000, 123456, 999999,
    1000000, 9999999, 10000000, 99999999, 100000000, 123456789, 999999999,
    1000000000, 2147483647 }

EncValues == 0..EncMaxSmall \cup EncBigValues

\* offsets into the buffer, the last ones past what an encoder can use
EncOffsets == {0, 1, 9, 31, 54, 55, 60, 62, 63, 64}

EncWidths == {0, 1, 2, 4, 6, 9}

\* f.tmp as make leaves it, and a buffer that holds other bytes everywhere
EncBuffers == { MakeBytes(64), [k \in 1..64 |-> 97 + (k % 26)] }

fmtVars == <<gram, f, status, rec, body, out, prevRec, prev>>

EncInit ==
  /\ gram = "B"
  /\ f = B_NewStdFormatter(<<>>)
  /\ status = "new"
  /\ rec = 0
  /\ body = <<>>
  /\ out = <<>>
  /\ prevRec = 0
  /\ prev = <<>>
  /\ NoLogger
  /\ \E b \in EncBuffers, i \in EncOffsets, d \in EncValues, n \in EncWidths :
       enc = [op |-> "input", in |-> b, i |-> i, d |-> d, n |-> n,
              buf |-> b, ok |-> TRUE, ret |-> 0]

\* twoDigits(&buf, i, d)
TwoDigitsCall ==
  /\ enc.op = "input"
  /\ LET r == twoDigits([b |-> enc.in, ok |-> TRUE], enc.i, enc.d) IN
     enc' = [enc EXCEPT !.op = "twoDigits", !.buf = r.b, !.ok = r.ok]
  /\ UNCHANGED <<fmtVars, logVars>>

\* nDigits(&buf, n, i, d)
NDigitsCall ==
  /\ enc.op = "input"
  /\ LET r == nDigits([b |-> enc.in, ok |-> TRUE], enc.n, enc.i, enc.d) IN
     enc' = [enc EXCEPT !.op = "nDigits", !.buf = r.b, !.ok = r.ok]
  /\ UNCHANGED <<fmtVars, logVars>>

\* n := itoa(&buf, i, d)
ItoaCall ==
  /\ enc.op = "input"
  /\ LET r == itoa(enc.in, enc.i, enc.d) IN
     enc' = [enc EXCEPT !.op = "itoa", !.buf = r.b, !.ret = r.n]
  /\ UNCHANGED <<fmtVars, logVars>>

EncNext == TwoDigitsCall \/ NDigitsCall \/ ItoaCall

EncSpec == EncInit /\ [][EncNext]_vars

\* two buffers of one length hold the same bytes outside offsets [a, b)
SameOutside(b1, b2, a, b) ==
  /\ Len(b1) = Len(b2)
  /\ \A k \in 1..Len(b1) : (k <= a \/ k > b) => b1[k] = b2[k]

\* C19: for d in 0..99 and a valid offset i, twoDigits writes buf[i] and
\* buf[i+1], the ASCII tens and units digits of d, and leaves every other
\* byte as it was; nDigits with width n writes n ASCII digits (the n
\* low-order digits of d, zero-padded) at buf[i..i+n) and nothing else.
C19_FixedWidth ==
  /\ (enc.op = "twoDigits" /\ enc.d \in 0..99 /\ enc.i + 2 <= Len(enc.in)) =>
       /\ enc.ok
       /\ Slice(enc.buf, enc.i, enc.i + 2)
            = <<48 + (enc.d \div 10), 48 + (enc.d % 10)>>
       /\ SameOutside(enc.buf, enc.in, enc.i, enc.i + 2)
  /\ (enc.op = "nDigits" /\ enc.i + enc.n <= Len(enc.in)) =>
       /\ enc.ok
       /\ Slice(enc.buf, enc.i, enc.i + enc.n) = Padded(enc.d, enc.n)
       /\ SameOutside(enc.buf, enc.in, enc.i, enc.i + enc.n)

\* twoDigits wrote "07" over the last two bytes of a buffer that held others
C19_Witness ==
  /\ enc.op = "twoDigits"
  /\ enc.d = 7
  /\ enc.i = 62
  /\ enc.in # MakeBytes(64)
  /\ enc.ok
  /\ Slice(enc.buf, 62, 64) = <<48, 55>>

\* the number of decimal digits of d >= 0
RECURSIVE NumDigits(_)
NumDigits(d) == IF d < 10 THEN 1 ELSE 1 + NumDigits(d \div 10)

\* C20: for d >= 0 and an offset i with room for its digits, itoa writes
\* at buf[i..i+n) the decimal digits of d with no leading zero and returns
\* their number n; d = 0 gives '0' and 1; the buffer and the result are
\* those of the one-digit-per-iteration reference conversion allDigits.
C20_VariableWidth ==
  (enc.op = "itoa" /\ enc.i + NumDigits(enc.d) <= Len(enc.in)) =>
    /\ enc.ret = NumDigits(enc.d)
    /\ Slice(enc.buf, enc.i, enc.i + enc.ret) = Padded(enc.d, NumDigits(enc.d))
    /\ enc.d = 0 => (enc.ret = 1 /\ enc.buf[enc.i + 1] = 48)
    /\ enc.d > 0 => enc.buf[enc.i + 1] # 48
    /\ allDigits(enc.in, enc.i, enc.d) = [b |-> enc.buf, n |-> enc.ret]

\* itoa wrote "12345" at offset 55, over the place its digits were made in
C20_Witness ==
  /\ enc.op = "itoa"
  /\ enc.d = 12345
  /\ enc.i = 55
  /\ enc.ret = 5
  /\ Slice(enc.buf, 55, 60) = <<49, 50, 51, 52, 53>>


\* the format of std, the FactorLog behind the functions of the package, in
\* the generation of either grammar
stdFormat(g) ==
  IF g = "A" THEN <<37, 100, 32, 37, 116, 32, 37, 77>>      \* "%d %t %M"
  ELSE <<37, 123, 68, 97, 116, 101, 125, 32, 37, 123, 84, 105, 109, 101,
         125, 32, 37, 123, 77, 101, 115, 115, 97, 103, 101, 125>>
                                          \* "%{Date} %{Time} %{Message}"

\* "2014-01-08 18:27:14 hello there!\n" of TestStdFormat, with sep between
\* the fields of the date
StdExpect(sep) ==
  <<50, 48, 49, 52, sep, 48, 49, sep, 48, 56, 32, 49, 56, 58, 50, 55, 58,
    49, 52, 32>> \o fmtTestsData.Message \o <<10>>

\* C24 as claimed: the formatter of std, in either generation, renders the
\* record of the tests as "2014-01-08 18:27:14 hello there!\n".
C24_StdFormatBoth ==
  (Returned /\ f.frmt = stdFormat(gram) /\ rec = 1) => out = StdExpect(45)

\* C24: the formatter of std of the Grammar B generation renders the record
\* of the tests as "2014-01-08 18:27:14 hello there!\n"; that of the Grammar A
\* generation, whose format is "%d %t %M", writes the date with '/':
\* "2014/01/08 18:27:14 hello there!\n".
C24_StdFormat ==
  (Returned /\ f.frmt = stdFormat(gram) /\ rec = 1)
    => out = StdExpect(IF gram = "B" THEN 45 ELSE 47)

\* the formatter of std of Grammar B has rendered the record of the tests
C24_Witness ==
  /\ gram = "B" /\ Returned /\ rec = 1 /\ f.frmt = stdFormat("B")
  /\ Len(out) = 33

(***************************************************************************)
(* One StdFormatter of Grammar B and records whose messages are long       *)
(* enough to make the scratch buffer of %{SafeMessage} grow past the limit *)
(* the code sets on it.                                                    *)
(***************************************************************************)

\* messages of 8001 and of 8000 plain bytes, a message of 2001 control bytes
\* (8004 bytes once escaped), and the messages "x\ny", "no" and ""
SafeRecords ==
  << [emptyRecord EXCEPT !.Message = [k \in 1..8001 |-> 97]],
     [emptyRecord EXCEPT !.Message = [k \in 1..8000 |-> 97]],
     [emptyRecord EXCEPT !.Message = [k \in 1..2001 |-> 1]],
     wildRecord, noCallerRecord, emptyRecord >>

\* "%{SafeMessage}", "%{Message}" and "%{SafeMessage}%{SafeMessage}"
SafeTemplates ==
  { <<37, 123, 83, 97, 102, 101, 77, 101, 115, 115, 97, 103, 101, 125>>,
    <<37, 123, 77, 101, 115, 115, 97, 103, 101, 125>>,
    <<37, 123, 83, 97, 102, 101, 77, 101, 115, 115, 97, 103, 101, 125,
      37, 123, 83, 97, 102, 101, 77, 101, 115, 115, 97, 103, 101, 125>> }

SafeInit ==
  /\ gram = "B"
  /\ \E frmt \in SafeTemplates : f = B_NewStdFormatter(frmt)
  /\ status = "new"
  /\ rec = 0
  /\ body = <<>>
  /\ out = <<>>
  /\ prevRec = 0
  /\ prev = <<>>
  /\ enc = EncIdle
  /\ NoLogger

\* f.Format(SafeRecords[r])
SafeFormatCall(r) ==
  /\ gram = "B"
  /\ f.ok
  /\ AfterFormat(r, B_Format(f, SafeRecords[r]))

SafeNext == \E r \in 1..Len(SafeRecords) : SafeFormatCall(r)

SafeSpec == SafeInit /\ [][SafeNext]_vars

\* the formatter has a %{SafeMessage} verb
HasSafeVerb == \E k \in 1..Len(f.parts) : f.parts[k] = B_vSafeMessage

\* C26: when a call of Format on a template with %{SafeMessage} begins with
\* a scratch capacity above 8000 and the message is no longer than that
\* capacity, the capacity is cut back to the length of the message before it
\* is escaped: the call leaves a capacity of that length when nothing in the
\* message is escaped, and of at most eight times that length otherwise
\* (four bytes for a byte, doubled once by append).
C26_ScratchCutBack ==
  [][LET msg == SafeRecords[rec'].Message IN
     (HasSafeVerb /\ status' = "returned" /\ f.stmpCap > 8000
        /\ Len(msg) <= f.stmpCap)
       => /\ f'.stmpCap <= 8 * Len(msg)
          /\ (\A k \in 1..Len(msg) : msg[k] >= 32 /\ msg[k] < 128)
               => f'.stmpCap = Len(msg)]_vars

\* the message of 8001 bytes was rendered and then the message "x\ny", which
\* left a scratch capacity of 6
C26_Witness ==
  /\ Returned /\ HasSafeVerb
  /\ prevRec = 1 /\ rec = 4
  /\ f.stmpCap = 6


(***************************************************************************)
(* The FactorLog of the generation of Grammar B: Output and the methods    *)
(* around it, called by goroutines that run side by side.  A step of a     *)
(* goroutine is a stretch of its code that touches the shared state once.  *)
(***************************************************************************)

\* the most calls made on the FactorLog in one run
MaxCalls == 2

Goroutines == {1, 2}

\* the io.Writers at hand: New is given 1
Sinks == {1, 2}

\* the levels handed to V and IsV, and those handed to SetVerbosity (those
\* of TestVerbosity; the verbosity of a new FactorLog is 0)
Levels == {0, 3}
Verbosities == {2, 4}

\* the severities a call can carry: Log(sev, ...) takes any, the named
\* methods their own
SeverityValues == NONE..(PANIC + 1)

\* the severities handed to Log(sev, ...)
LogSeverities == {ERROR, PANIC + 1}

\* "%{Message}" of TestVerbosity, and a template with a severity verb and a
\* location verb
LogTemplates ==
  { <<37, 123, 77, 101, 115, 115, 97, 103, 101, 125>>,
    <<37, 123, 83, 69, 86, 125, 32, 37, 123, 77, 101, 115, 115, 97, 103,
      101, 125, 32, 37, 123, 70, 105, 108, 101, 125>> }

\* the severity of each method that has one of its own; the f and ln
\* variants differ in how the message is built only
MethodSeverity ==
  [Info |-> INFO, Warn |-> WARN, Error |-> ERROR, Critical |-> CRITICAL,
   Stack |-> STACK, Fatal |-> FATAL, Panic |-> PANIC]

Methods == {"Info", "Warn", "Critical", "Stack", "Fatal", "Panic", "Log"}

\* a goroutine that has not called anything
NoCall ==
  [pc |-> "idle", m |-> "none", sev |-> NONE, viaV |-> FALSE, n |-> 0,
   True |-> FALSE, vseen |-> 0, admitted |-> FALSE, lim |-> <<>>,
   isv |-> FALSE,
   ts |-> 0, w |-> 0, bytes |-> <<>>, wrote |-> 0, fate |-> "none"]

\* New(out, NewStdFormatter(frmt)).  Beside the fields of the FactorLog, lg
\* keeps whether os.Exit was called, the number of calls made, whether an
\* Unlock met a mutex its goroutine had not locked, and the arguments of the
\* last call that set the severities (lim); a goroutine keeps what its last
\* call saw and did (vseen, lim, wrote, fate).
LogInit ==
  /\ gram = "B"
  /\ \E frmt \in LogTemplates : f = B_NewStdFormatter(frmt)
  /\ status = "new"
  /\ rec = 0
  /\ body = <<>>
  /\ out = <<>>
  /\ prevRec = 0
  /\ prev = <<>>
  /\ enc = EncIdle
  /\ mu = 0
  /\ lg = [made |-> TRUE, out |-> 1, verbosity |-> 0,
           severities |-> SeverityValues, lim |-> <<"all">>,
           exited |-> FALSE, calls |-> 0, badUnlock |-> FALSE]
  /\ gor = [g \in Goroutines |-> NoCall]
  /\ sink = [w \in Sinks |-> <<>>]
  /\ now = 0

\* what no step of the logger writes
logFrame == <<gram, status, rec, body, out, prevRec, prev, enc>>

\* a goroutine may begin a call: the process runs, the goroutine is between
\* calls
CanCall(g) ==
  /\ ~lg.exited
  /\ gor[g].pc = "idle"
  /\ lg.calls < MaxCalls

\* an admission check that knows a minimum only
AdmitsFrom(severities, sev) == \E s \in severities : s <= sev

\* the admission check of the front door: the severity is one of those set
Admits(severities, sev) == sev \in severities

\* where a method goes on once its Output has returned (or was not made):
\* Stack to the write of the stack trace, Panic to panic(s), Fatal to
\* os.Exit(1), the others back to the caller
AfterOutput(m, traced) ==
  IF m = "Stack" /\ traced THEN "stackwrite"
  ELSE IF m = "Panic" THEN "panicked"
  ELSE "idle"

\* l.Info(...), ..., l.Log(sev, ...) and the same through a Verbose whose
\* True is ver: the call up to the Lock of Output
Enter(g, m, sev, viaV, n, ver, vseen) ==
  LET adm == Admits(lg.severities, sev)
      call == [NoCall EXCEPT !.m = m, !.sev = sev, !.viaV = viaV, !.n = n,
                             !.True = ver, !.vseen = vseen, !.admitted = adm,
                             !.lim = lg.lim]
  IN
  /\ IF viaV /\ ~ver
     THEN /\ gor' = [gor EXCEPT ![g] = [call EXCEPT !.fate = "returned"]]
          /\ lg' = [lg EXCEPT !.calls = @ + 1]
     ELSE IF adm
     THEN /\ gor' = [gor EXCEPT ![g] = [call EXCEPT !.pc = "lock"]]
          /\ lg' = [lg EXCEPT !.calls = @ + 1]
     ELSE /\ gor' = [gor EXCEPT ![g] =
                       [call EXCEPT !.pc = AfterOutput(m, FALSE),
                                    !.fate = IF m = "Panic" THEN "panicked"
                                             ELSE IF m = "Fatal" THEN "exited"
                                             ELSE "returned"]]
          /\ lg' = [lg EXCEPT !.calls = @ + 1, !.exited = (m = "Fatal")]
  /\ UNCHANGED <<logFrame, f, mu, sink, now>>

\* a method of *FactorLog that logs
LogCall(g) ==
  /\ CanCall(g)
  /\ \E m \in Methods :
       \E sev \in (IF m = "Log" THEN LogSeverities ELSE {MethodSeverity[m]}) :
         Enter(g, m, sev, FALSE, 0, FALSE, 0)

\* V with `>` for `>=`
VCallStrict(g) ==
  /\ CanCall(g)
  /\ \E level \in Levels, m \in {"Info", "Fatal", "Panic"} :
       Enter(g, m, MethodSeverity[m], TRUE, level,
             lg.verbosity > level, lg.verbosity)

\* l.V(level) followed by a method of the Verbose it returns
VCall(g) ==
  /\ CanCall(g)
  /\ \E level \in Levels, m \in {"Info", "Fatal", "Panic"} :
       Enter(g, m, MethodSeverity[m], TRUE, level,
             lg.verbosity >= level, lg.verbosity)

\* l.IsV(level)
IsVCall(g) ==
  /\ CanCall(g)
  /\ \E level \in Levels :
       gor' = [gor EXCEPT ![g] =
                 [NoCall EXCEPT !.m = "IsV", !.n = level,
                                !.vseen = lg.verbosity,
                                !.isv = (lg.verbosity >= level),
                                !.fate = "returned"]]
  /\ lg' = [lg EXCEPT !.calls = @ + 1]
  /\ UNCHANGED <<logFrame, f, mu, sink, now>>

\* l.SetVerbosity(level)
SetVerbosity(g) ==
  /\ CanCall(g)
  /\ \E level \in Verbosities :
       lg' = [lg EXCEPT !.calls = @ + 1, !.verbosity = level]
  /\ gor' = [gor EXCEPT ![g] = [NoCall EXCEPT !.m = "SetVerbosity",
                                              !.fate = "returned"]]
  /\ UNCHANGED <<logFrame, f, mu, sink, now>>

\* l.SetOutput(w): Lock, the assignment and the deferred Unlock
SetOutput(g) ==
  /\ CanCall(g)
  /\ mu = 0
  /\ \E w \in Sinks : lg' = [lg EXCEPT !.calls = @ + 1, !.out = w]
  /\ gor' = [gor EXCEPT ![g] = [NoCall EXCEPT !.m = "SetOutput",
                                              !.fate = "returned"]]
  /\ UNCHANGED <<logFrame, f, mu, sink, now>>

\* l.SetMinMaxSeverity(min, max)
SetMinMaxSeverity(g) ==
  /\ CanCall(g)
  /\ \E mm \in {<<WARN, CRITICAL>>, <<INFO, PANIC>>} :
       LET min == mm[1]
           max == mm[2] IN
       lg' = [lg EXCEPT !.calls = @ + 1, !.lim = <<"minmax", min, max>>,
                        !.severities = {s \in SeverityValues : min <= s /\ s <= max}]
  /\ gor' = [gor EXCEPT ![g] = [NoCall EXCEPT !.m = "SetMinMaxSeverity",
                                              !.fate = "returned"]]
  /\ UNCHANGED <<logFrame, f, mu, sink, now>>

\* l.SetSeverities(sev)
SetSeverities(g) ==
  /\ CanCall(g)
  /\ \E sev \in {INFO, PANIC} :
       lg' = [lg EXCEPT !.calls = @ + 1, !.lim = <<"set", sev>>,
                        !.severities = {sev}]
  /\ gor' = [gor EXCEPT ![g] = [NoCall EXCEPT !.m = "SetSeverities",
                                              !.fate = "returned"]]
  /\ UNCHANGED <<logFrame, f, mu, sink, now>>

\* what runtime.Caller(2) and runtime.FuncForPC give for the caller
CallerFile == <<47, 112, 47, 109, 46, 103, 111>>             \* "/p/m.go"
CallerFunction == <<109, 97, 105, 110, 46, 109, 97, 105, 110>> \* "main.main"

\* context of Output: Time is the time of the tests, the order of the
\* calls of time.Now() is kept in ts
LogContext(sev, located) ==
  [Time |-> fmtTestsData.Time, Severity |-> sev,
   File |-> IF located THEN CallerFile ELSE <<>>,
   Line |-> IF located THEN 7 ELSE 0,
   Message |-> <<104, 105>>,                                 \* "hi"
   Function |-> IF located THEN CallerFunction ELSE <<>>,
   Package |-> <<>>]

\* every severity a call of the model carries
CallSeverities ==
  LogSeverities \cup {MethodSeverity[m] : m \in Methods \ {"Log"}}

\* l.formatter.Format(context) in Output, for a call of severity sev on the
\* formatter as it is
OutputFormat(x, sev) == B_Format(x, LogContext(sev, B_ShouldRuntimeCaller(x)))

\* the formatter after that call
Formatted(x, r) == [x EXCEPT !.tmp = r.tmp, !.stmpCap = r.stmpCap]

\* the states a formatter of LogTemplates is in after at most n calls of
\* Format by Output
RECURSIVE FormattersAfter(_)
FormattersAfter(n) ==
  IF n = 0 THEN {B_NewStdFormatter(frmt) : frmt \in LogTemplates}
  ELSE LET before == FormattersAfter(n - 1) IN
       before \cup {Formatted(x, OutputFormat(x, sev)) :
                      x \in before, sev \in CallSeverities}

\* OutputFormat of every state of the formatter and every severity, worked
\* out once for all the steps that call it
OutputFormats ==
  {[f |-> x, sev |-> sev, r |-> OutputFormat(x, sev)] :
     x \in FormattersAfter(MaxCalls), sev \in CallSeverities}

FormatResult(x, sev) ==
  (CHOOSE e \in OutputFormats : e.f = x /\ e.sev = sev).r

\* Output without the l.mu.Lock() at its head
OutputLockNoLock(g) ==
  /\ ~lg.exited
  /\ gor[g].pc = "lock"
  /\ now' = now + 1
  /\ gor' = [gor EXCEPT ![g].ts = now + 1,
                        ![g].pc = IF B_ShouldRuntimeCaller(f) THEN "unlock"
                                  ELSE "format"]
  /\ UNCHANGED <<logFrame, f, mu, lg, sink>>

\* l.mu.Lock() at the head of Output, context := LogContext{Time: time.Now(), ...}
\* and the test of ShouldRuntimeCaller
OutputLock(g) ==
  /\ ~lg.exited
  /\ gor[g].pc = "lock"
  /\ mu = 0
  /\ mu' = g
  /\ now' = now + 1
  /\ gor' = [gor EXCEPT ![g].ts = now + 1,
                        ![g].pc = IF B_ShouldRuntimeCaller(f) THEN "unlock"
                                  ELSE "format"]
  /\ UNCHANGED <<logFrame, f, lg, sink>>

\* l.mu.Unlock() before the caller is looked up; sync.Mutex unlocks whoever
\* locked it
OutputUnlock(g) ==
  /\ ~lg.exited
  /\ gor[g].pc = "unlock"
  /\ mu' = 0
  /\ lg' = [lg EXCEPT !.badUnlock = @ \/ mu # g]
  /\ gor' = [gor EXCEPT ![g].pc = "relock"]
  /\ UNCHANGED <<logFrame, f, sink, now>>

\* Output without the second l.mu.Lock()
OutputRelockNoLock(g) ==
  /\ ~lg.exited
  /\ gor[g].pc = "relock"
  /\ gor' = [gor EXCEPT ![g].pc = "format"]
  /\ UNCHANGED <<logFrame, f, mu, lg, sink, now>>

\* runtime.Caller(calldepth), runtime.FuncForPC(pc) and l.mu.Lock() again
OutputRelock(g) ==
  /\ ~lg.exited
  /\ gor[g].pc = "relock"
  /\ mu = 0
  /\ mu' = g
  /\ gor' = [gor EXCEPT ![g].pc = "format"]
  /\ UNCHANGED <<logFrame, f, lg, sink, now>>

\* l.out is read and l.formatter.Format(context) entered
FormatEnter(g) ==
  /\ ~lg.exited
  /\ gor[g].pc = "format"
  /\ gor' = [gor EXCEPT ![g].pc = "formatting", ![g].w = lg.out]
  /\ UNCHANGED <<logFrame, f, mu, lg, sink, now>>

\* Output with an Unlock at its end in place of the deferred one: a panic
\* of Format leaves mu locked
FormatLeaveNoDefer(g) ==
  /\ ~lg.exited
  /\ gor[g].pc = "formatting"
  /\ LET r == FormatResult(f, gor[g].sev) IN
     /\ f' = Formatted(f, r)
     /\ IF r.ok
        THEN gor' = [gor EXCEPT ![g].pc = "writing", ![g].bytes = r.buf]
        ELSE gor' = [gor EXCEPT ![g].pc = "panicked", ![g].fate = "panicked"]
  /\ UNCHANGED <<logFrame, mu, lg, sink, now>>

\* Format returns and Write is entered with its result, or Format panics
\* and the deferred l.mu.Unlock() runs on the way out
FormatLeave(g) ==
  /\ ~lg.exited
  /\ gor[g].pc = "formatting"
  /\ LET r == FormatResult(f, gor[g].sev) IN
     /\ f' = Formatted(f, r)
     /\ IF r.ok
        THEN /\ gor' = [gor EXCEPT ![g].pc = "writing", ![g].bytes = r.buf]
             /\ UNCHANGED <<mu, lg>>
        ELSE /\ gor' = [gor EXCEPT ![g].pc = "panicked", ![g].fate = "panicked"]
             /\ mu' = 0
             /\ lg' = [lg EXCEPT !.badUnlock = @ \/ mu # g]
  /\ UNCHANGED <<logFrame, sink, now>>

\* the Write of Output returns
WriteLeave(g) ==
  /\ ~lg.exited
  /\ gor[g].pc = "writing"
  /\ sink' = [sink EXCEPT ![gor[g].w] =
                Append(@, [what |-> "record", g |-> g, ts |-> gor[g].ts,
                           sev |-> gor[g].sev, bytes |-> gor[g].bytes])]
  /\ gor' = [gor EXCEPT ![g].pc = "return", ![g].wrote = @ + 1]
  /\ UNCHANGED <<logFrame, f, mu, lg, now>>

\* the deferred l.mu.Unlock() runs, Output returns and the method goes on:
\* os.Exit(1) in Fatal, panic(s) in Panic
OutputReturn(g) ==
  /\ ~lg.exited
  /\ gor[g].pc = "return"
  /\ mu' = 0
  /\ lg' = [lg EXCEPT !.badUnlock = @ \/ mu # g,
                      !.exited = (gor[g].m = "Fatal")]
  /\ gor' = [gor EXCEPT ![g].pc = AfterOutput(gor[g].m, TRUE),
                        ![g].fate = IF gor[g].m = "Panic" THEN "panicked"
                                    ELSE IF gor[g].m = "Fatal" THEN "exited"
                                    ELSE IF gor[g].m = "Stack" THEN "none"
                                    ELSE "returned"]
  /\ UNCHANGED <<logFrame, f, sink, now>>

\* l.out.Write(GetStack(true)) of Stack: l.out is read and Write entered
StackWriteEnter(g) ==
  /\ ~lg.exited
  /\ gor[g].pc = "stackwrite"
  /\ gor' = [gor EXCEPT ![g].pc = "stackwriting", ![g].w = lg.out]
  /\ UNCHANGED <<logFrame, f, mu, lg, sink, now>>

\* that Write returns, and Stack
StackWriteLeave(g) ==
  /\ ~lg.exited
  /\ gor[g].pc = "stackwriting"
  /\ sink' = [sink EXCEPT ![gor[g].w] =
                Append(@, [what |-> "stack", g |-> g, ts |-> gor[g].ts,
                           sev |-> gor[g].sev, bytes |-> <<>>])]
  /\ gor' = [gor EXCEPT ![g].pc = "idle", ![g].wrote = @ + 1,
                        ![g].fate = "returned"]
  /\ UNCHANGED <<logFrame, f, mu, lg, now>>

\* the steps of Output and of what follows it in the method
OutputStep(g) ==
  \/ OutputLock(g)
  \/ OutputUnlock(g)
  \/ OutputRelock(g)
  \/ FormatEnter(g)
  \/ FormatLeave(g)
  \/ WriteLeave(g)
  \/ OutputReturn(g)
  \/ StackWriteEnter(g)
  \/ StackWriteLeave(g)

LogNext ==
  \E g \in Goroutines :
    \/ LogCall(g)
    \/ VCall(g)
    \/ IsVCall(g)
    \/ SetVerbosity(g)
    \/ SetOutput(g)
    \/ SetMinMaxSeverity(g)
    \/ SetSeverities(g)
    \/ OutputStep(g)

LogSpec == LogInit /\ [][LogNext]_vars

\* The scheduler of Go runs every goroutine that can run, a Write returns,
\* and a goroutine that waits in Lock gets the mutex once it stays free.
FairLogSpec == LogSpec /\ \A g \in Goroutines : WF_vars(OutputStep(g))


\* C21: a call made through V(n) writes one record when the verbosity was at
\* least n as V(n) was evaluated (and the severity is admitted), whatever
\* the verbosity is set to afterwards; when it was below n the call writes
\* nothing, returns, and neither exits nor panics.  IsV(n) returns whether
\* the verbosity is at least n.
C21_VerbosityGating ==
  \A g \in Goroutines :
    LET c == gor[g] IN
    /\ (c.viaV /\ c.vseen >= c.n /\ c.admitted /\ c.fate # "none")
         => c.wrote = 1
    /\ (c.viaV /\ c.vseen < c.n)
         => (c.wrote = 0 /\ c.fate = "returned" /\ c.pc = "idle")
    /\ (c.m = "IsV") => (c.isv <=> (c.vseen >= c.n))

\* V(3).Info has written at verbosity 4 in one goroutine, after
\* SetVerbosity(4) by the other
C21_Witness ==
  \E g \in Goroutines :
    /\ gor[g].viaV /\ gor[g].m = "Info" /\ gor[g].n = 3 /\ gor[g].vseen = 4
    /\ gor[g].wrote = 1 /\ gor[g].fate = "returned"
    /\ \E h \in Goroutines \ {g} : gor[h].m = "SetVerbosity"


\* C22: a goroutine that is inside Format, or inside the Write of what Format
\* returned, holds mu, so no two goroutines are inside Format at once, also
\* after the lock was given up for the caller lookup.
C22_FormatSerialised ==
  /\ \A g \in Goroutines : gor[g].pc \in {"formatting", "writing"} => mu = g
  /\ \A g, h \in Goroutines :
       (gor[g].pc = "formatting" /\ gor[h].pc = "formatting") => g = h

\* one goroutine is inside Format while the other has given up the lock to
\* look up its caller
C22_Witness ==
  \E g, h \in Goroutines :
    /\ gor[g].pc = "formatting"
    /\ gor[h].pc = "relock"
    /\ gor[h].ts < gor[g].ts

\* C23: every Write to a sink, that of a stack trace included, is made by a
\* goroutine that holds mu, and no two Writes are in progress at once.
C23_WritesUnderLock ==
  /\ \A g \in Goroutines : gor[g].pc \in {"writing", "stackwriting"} => mu = g
  /\ \A g, h \in Goroutines :
       (gor[g].pc \in {"writing", "stackwriting"}
          /\ gor[h].pc \in {"writing", "stackwriting"}) => g = h


\* what the arguments of the last SetMinMaxSeverity or SetSeverities ask for
InLimits(lim, sev) ==
  CASE lim[1] = "minmax" -> lim[2] <= sev /\ sev <= lim[3]
    [] lim[1] = "set" -> sev = lim[2]
    [] OTHER -> TRUE

\* C25: a logging call at a severity s, made after SetMinMaxSeverity(min, max),
\* writes a record exactly when min <= s <= max; made after SetSeverities, it
\* writes nothing when s is not admitted; and a range that reaches up to PANIC
\* (a minimum threshold) that admits a admits every b >= a.
C25_SeverityAdmission ==
  /\ \A g \in Goroutines :
       LET c == gor[g] IN
       (c.m \in Methods /\ ~c.viaV /\ c.sev <= PANIC) =>
         /\ c.wrote > 0 => InLimits(c.lim, c.sev)
         /\ (c.fate # "none" /\ InLimits(c.lim, c.sev)) => c.wrote >= 1
  /\ (lg.lim[1] = "minmax" /\ lg.lim[3] = PANIC) =>
       \A a, b \in NONE..PANIC :
         (a <= b /\ Admits(lg.severities, a)) => Admits(lg.severities, b)

\* after SetMinMaxSeverity(WARN, CRITICAL), Stack has returned and has written
\* nothing
C25_Witness ==
  \E g \in Goroutines :
    /\ gor[g].m = "Stack" /\ gor[g].fate = "returned" /\ gor[g].wrote = 0
    /\ gor[g].lim = <<"minmax", WARN, CRITICAL>>


\* the goroutine is in Output between a Lock and the Unlock that follows it
InLocked(g) == gor[g].pc \in {"unlock", "format", "formatting", "writing", "return"}

\* the goroutine is in Output
InOutput(g) == gor[g].pc \in {"lock", "relock"} \/ InLocked(g)

\* C27: no Unlock of Output meets a mutex that its goroutine has not locked;
\* mu is locked by a goroutine exactly while that goroutine is between a Lock
\* and the next Unlock of its Output, so mu is free once every call has
\* returned or has left Output by a panic of Format; and while the process
\* runs every call that has entered Output leaves it, with or without the
\* caller lookup.
C27_LockDiscipline ==
  /\ [](~lg.badUnlock /\ \A g \in Goroutines : (mu = g <=> InLocked(g)))
  /\ \A g \in Goroutines : InOutput(g) ~> (~InOutput(g) \/ lg.exited)

\* with a template that needs the caller, Format has panicked in one
\* goroutine (Log with a severity past PANIC), the other goroutine has locked
\* mu a second time, has written and has returned, and mu is free
C27_Witness ==
  \E g, h \in Goroutines :
    /\ B_ShouldRuntimeCaller(f)
    /\ gor[g].m = "Log" /\ gor[g].fate = "panicked" /\ gor[g].wrote = 0
    /\ gor[h].fate = "returned" /\ gor[h].wrote = 1
    /\ mu = 0

\* the records of a sink are in the order of their times
InTimeOrder(w) ==
  \A i, j \in 1..Len(w) :
    (i < j /\ w[i].what = "record" /\ w[j].what = "record") => w[i].ts < w[j].ts

\* C28 as stated: whatever the interleaving of the calls of Output, and with
\* or without the caller lookup, each sink holds its records in the order in
\* which their Time was taken.
C28_TimestampOrderAlways == \A s \in DOMAIN sink : InTimeOrder(sink[s])

\* C28: with a formatter that needs no caller, whatever the interleaving of
\* the calls of Output, each sink holds its records in the order in which
\* their Time was taken; with the caller lookup mu is given up between
\* time.Now() and Write, and the order is not kept.
C28_TimestampOrder ==
  ~B_ShouldRuntimeCaller(f) => \A s \in DOMAIN sink : InTimeOrder(sink[s])

\* without the caller lookup, one sink holds the records of two goroutines,
\* and the second of them waited for mu while the first was in Output
C28_Witness ==
  /\ lg.made /\ ~B_ShouldRuntimeCaller(f)
  /\ \E s \in DOMAIN sink : \E i, j \in 1..Len(sink[s]) :
        /\ i < j
        /\ sink[s][i].what = "record" /\ sink[s][j].what = "record"
        /\ sink[s][i].g # sink[s][j].g

\* the number of vSTRING entries of parts
StringParts(g, fm) ==
  Cardinality({k \in 1..Len(fm.parts) :
                 fm.parts[k] = IF g = "A" THEN A_vSTRING ELSE B_vSTRING})

\* C29: a compiled StdFormatter of either grammar, right after
\* NewStdFormatter and after any calls of Format, has as many vSTRING
\* entries in parts as it has strings, and its strings, parts and flags are
\* those NewStdFormatter made of its template; no call of Format changes them.
C29_CompiledState ==
  /\ [](f.ok =>
         /\ StringParts(gram, f) = Len(f.strings)
         /\ LET c == NewStdFormatter(gram, f.frmt) IN
            f.strings = c.strings /\ f.parts = c.parts /\ f.flags = c.flags)
  /\ [][f'.strings = f.strings /\ f'.parts = f.parts /\ f'.flags = f.flags]_vars

\* a formatter with two literal strings or more between its verbs has
\* returned from two calls of Format, which have written to its scratch buffer
C29_Witness ==
  /\ Returned /\ prevRec # 0
  /\ Len(f.strings) >= 2 /\ Len(f.parts) > Len(f.strings)
  /\ f.tmp # MakeBytes(64)

(***************************************************************************)
(* The GlogFormatter (src/glog_formatter.go)                               *)
(***************************************************************************)

\* NewGlogFormatter(): &GlogFormatter{make([]byte, 64)}
NewGlogFormatter == [tmp |-> MakeBytes(64)]

\* SeverityToIndex(sev): the position of the severity in the string tables
SeverityToIndex(sev) == sev

\* a LogContext for each choice of message, file, line, pid and severity;
\* Message is what fmt.Sprintf(*context.Format, context.Args...) or
\* fmt.Sprint(context.Args...) returns: fmt.Sprint() of no argument,
\* "hello there!", and a message that ends in '\n'
GlogRecords ==
  LET messages == << <<>>, fmtTestsData.Message, <<120, 10>> >>
      files == << <<>>, fmtTestsData.File >>
      lines == <<0, fmtTestsData.Line>>
      pids == <<7, 1234>>
      severities == <<INFO, PANIC>>
  IN [k \in 1..(Len(messages) * Len(files) * Len(lines) * Len(pids)
                * Len(severities)) |->
        LET a == k - 1
            b == a \div Len(messages)
            c == b \div Len(files)
            d == c \div Len(lines)
            e == d \div Len(pids)
        IN [Time |-> fmtTestsData.Time,
            Message |-> messages[(a % Len(messages)) + 1],
            File |-> files[(b % Len(files)) + 1],
            Line |-> lines[(c % Len(lines)) + 1],
            Pid |-> pids[(d % Len(pids)) + 1],
            Severity |-> severities[(e % Len(severities)) + 1]]]

\* the file name after its last filepath.Separator
GlogFile(file) ==
  LET slash == LastSeparator(file, Len(file) - 1) IN
  IF slash >= 0 THEN Slice(file, slash + 1, Len(file)) ELSE file

\* f.tmp[0] = UcShortestSeverityStrings[SeverityToIndex(context.Severity)][0]
\* and the writes into f.tmp up to f.tmp[27] = ' '
GlogHeader(e, context) ==
  LET i == SeverityToIndex(context.Severity)
      t == context.Time
      e1 == IF IndexOK(UcShortestSeverityStrings, i)
            THEN PutByte(e, 0, UcShortestSeverityStrings[i + 1][1])
            ELSE [e EXCEPT !.ok = FALSE]
      e2 == PutByte(twoDigits(twoDigits(e1, 1, t.Month), 3, t.Day), 5, 32)
      e3 == PutByte(twoDigits(PutByte(twoDigits(e2, 6, t.Hour), 8, 58),
                               9, t.Min), 11, 58)
      e4 == PutByte(twoDigits(e3, 12, t.Sec), 14, 46)
      e5 == PutByte(nDigits(e4, 6, 15, GoDiv(t.Nsec, 1000)), 21, 32)
  IN PutByte(nDigits(e5, 5, 22, context.Pid), 27, 32)

\* the terminator of Format: l := len(message);
\* if l > 0 && message[l-1] != '\n' { res.WriteRune('\n') }
GlogTerminator(message) ==
  IF Len(message) > 0 /\ message[Len(message)] # 10 THEN <<10>> ELSE <<>>

\* GlogFormatter.Format(context): buf the bytes returned, tmp the scratch
\* buffer it leaves
GlogFormat(fmtr, context) ==
  LET h == GlogHeader([b |-> fmtr.tmp, ok |-> TRUE], context)
      c == PutByte(h, 0, 58)
      r == itoa(c.b, 1, context.Line)
      t == PutByte(PutByte([b |-> r.b, ok |-> c.ok], r.n + 1, 93), r.n + 2, 32)
  IN [buf |-> IF t.ok
              THEN Slice(h.b, 0, 28) \o GlogFile(context.File)
                   \o Slice(t.b, 0, r.n + 3) \o context.Message
                   \o GlogTerminator(context.Message)
              ELSE <<>>,
      tmp |-> t.b, ok |-> t.ok]

GlogInit ==
  /\ gram = "glog"
  /\ f = NewGlogFormatter
  /\ status = "new"
  /\ rec = 0
  /\ body = <<>>
  /\ out = <<>>
  /\ prevRec = 0
  /\ prev = <<>>
  /\ enc = EncIdle
  /\ NoLogger

\* f.Format(GlogRecords[r]) on the GlogFormatter
GlogFormatCall(r) ==
  /\ gram = "glog"
  /\ LET rs == GlogFormat(f, GlogRecords[r]) IN
     /\ f' = [f EXCEPT !.tmp = rs.tmp]
     /\ status' = IF rs.ok THEN "returned" ELSE "panicked"
     /\ out' = rs.buf
  /\ rec' = r
  /\ prevRec' = IF status = "returned" THEN rec ELSE prevRec
  /\ prev' = IF status = "returned" THEN out ELSE prev
  /\ UNCHANGED <<gram, body, enc, logVars>>

GlogNext == \E r \in DOMAIN GlogRecords : GlogFormatCall(r)

GlogSpec == GlogInit /\ [][GlogNext]_vars

\* b is a decimal digit
IsDigit(b) == 48 <= b /\ b <= 57

\* s is laid out as 'Lmmdd hh:mm:ss.uuuuuu ppppp ' followed by more
GlogLaidOut(s) ==
  /\ Len(s) > 28
  /\ s[1] \in {UcShortestSeverityStrings[k][1] :
                 k \in 1..Len(UcShortestSeverityStrings)}
  /\ \A k \in {2, 3, 4, 5, 7, 8, 10, 11, 13, 14} \cup (16..21) \cup (23..27) :
       IsDigit(s[k])
  /\ s[6] = 32 /\ s[9] = 58 /\ s[12] = 58 /\ s[15] = 46
  /\ s[22] = 32 /\ s[28] = 32

\* C30: every line that GlogFormatter.Format returns is not empty, is laid
\* out as 'Lmmdd hh:mm:ss.uuuuuu ppppp file:line] msg' and ends with '\n',
\* whatever the message is, the empty message included.
C30_GlogLine ==
  (gram = "glog" /\ Returned) =>
    /\ out # <<>>
    /\ GlogLaidOut(out)
    /\ out[Len(out)] = 10

====
